---- MODULE Spec2Model ----
(***************************************************************************)
(* A model of the loudness measurement pipeline of regulus: the gated      *)
(* power windower, the two-pass loudness aggregator, the K-weighting       *)
(* filter and the layer stack that fans frames out to them.                *)
(*                                                                         *)
(* Numbers.  The program computes in f64.  The model computes exactly:     *)
(* samples are integers, powers and means are rationals <<num, den>> in    *)
(* lowest terms.  A sample of value a stands for a * 10^-4 of full scale,  *)
(* so a power of value p stands for p * 10^-8; loudness is an integer in   *)
(* thousandths of a loudness unit (see lufs).                              *)
(***************************************************************************)
EXTENDS Integers, Sequences, FiniteSets, TLC

VARIABLES
    gp,          \* SpecGate: the GatedPowers under test (ms_state, i, delta)
    gp_inputs,   \* SpecGate: every frame given to process(), in order
    gp_outputs,  \* SpecGate: what process() returned for each of them
    gp_ctor,     \* SpecGate: the constructor call that built gp

    gmsi,        \* SpecGmsi: the GatedMeanSquareIter under test
    gm_pulled,   \* SpecGmsi: every frame its source has yielded, in order
    gm_results,  \* SpecGmsi: the frames next() has returned, each with the
                 \*   number of frames pulled when it was returned
    gm_last,     \* SpecGmsi: the outcome of the latest call of next()

    loud,        \* SpecLoud: the Loudness aggregator under test
    ld_pushed,   \* SpecLoud: every power frame given to push(), in order
    ld_result,   \* SpecLoud: what calculate() returned, once it was called

    pipe,        \* SpecPipe: the LayeredPipeline under test
    pp_hist,     \* SpecPipe: the calls made on it, in order
    pp_popped,   \* SpecPipe: what the latest pop_layer() returned

    album,       \* SpecAlbum: a LayeredPipeline and a Pipeline chain streaming tracks
    build,       \* SpecBuild: a PipelineBuilder and the Pipeline it builds
    twin,        \* SpecTwin: two pipelines given the same calls
    rst,         \* SpecReset: a GatedLoudness that is pushed, reset and replayed
    peak,        \* SpecPeak: a SamplePeakIter and what it has yielded
    filt,        \* SpecFilt: an Applicator and the frames applied to it
    stats,       \* SpecStats: a Stats accumulator and the values added
    mrg,         \* SpecMerge: two Stats accumulators and their merge
    msqs,       \* SpecMsq: a MeanSquare and the batches added to it
    conv,       \* SpecConv: one call of Util::ms_to_samples and its result
    opts,       \* SpecOpts: a CalcOptions, the layer it asks for, is_noop of both
    rng,        \* SpecRange: a Stats and what get_range returned for it
    rebuild      \* SpecRebuild: a PipelineBuilder and the pipelines built from it

gateVars == <<gp, gp_inputs, gp_outputs, gp_ctor>>
gmsiVars == <<gmsi, gm_pulled, gm_results, gm_last>>
loudVars == <<loud, ld_pushed, ld_result>>
pipeVars == <<pipe, pp_hist, pp_popped>>
lateVars == <<mrg, msqs, conv, opts, rng, rebuild>>
extraVars == <<album, build, twin, rst, peak, filt, stats, lateVars>>
vars == <<gp, gp_inputs, gp_outputs, gp_ctor, gmsi, gm_pulled, gm_results, gm_last,
          loud, ld_pushed, ld_result, pipe, pp_hist, pp_popped,
          album, build, twin, rst, peak, filt, stats, lateVars>>

(***************************************************************************)
(* Bounds of the model.                                                    *)
(***************************************************************************)
NumChannels == 2
MaxFrames == 6
MaxPulled == 8
MaxPowers == 4
MaxCalls == 6
MaxDepth == 2
MaxTrackFrames == 2
MaxBuildOps == 3
MaxTwinCalls == 5
MaxResetCalls == 5
MaxPeakCalls == 3
MaxFiltCalls == 3
MaxBins == 3
MaxStatsCalls == 4
MaxMergeCalls == 3
MaxMsqSamples == 4
MaxMsqCalls == 3
MaxMsArg == 12
MaxWindowPulled == 6
MaxRangeCalls == 2
MaxBuilds == 2
MaxGateMs == 3
MaxDeltaMs == 2

Channels == 1..NumChannels

None == [some |-> FALSE]
Some(v) == [some |-> TRUE, val |-> v]

(***************************************************************************)
(* Exact rational arithmetic standing for f64 arithmetic.                  *)
(***************************************************************************)
Abs(x) == IF x < 0 THEN -x ELSE x

RECURSIVE GCD(_, _)
GCD(a, b) == IF b = 0 THEN a ELSE GCD(b, a % b)

Rat(n, d) ==
    LET s == IF d < 0 THEN -1 ELSE 1
        g == GCD(Abs(n), Abs(d))
    IN  <<(s * n) \div g, (s * d) \div g>>

RInt(n) == <<n, 1>>
RAdd(a, b) == Rat(a[1] * b[2] + b[1] * a[2], a[2] * b[2])
RSub(a, b) == Rat(a[1] * b[2] - b[1] * a[2], a[2] * b[2])
RMul(a, b) == Rat(a[1] * b[1], a[2] * b[2])
RDivInt(a, k) == Rat(a[1], a[2] * k)
RLess(a, b) == a[1] * b[2] < b[1] * a[2]

(***************************************************************************)
(* Frames: one sample per channel.  The input frames of the model are the  *)
(* silent frame and frames whose channels carry a, -2a, a, -2a, ...        *)
(***************************************************************************)
EQUILIBRIUM == [c \in Channels |-> 0]

Amplitudes == {0, 1, 2}

InputFrames ==
    { [c \in Channels |-> IF c % 2 = 1 THEN a ELSE -2 * a] : a \in Amplitudes }

RECURSIVE SeqSum(_)
SeqSum(s) == IF s = <<>> THEN 0 ELSE Head(s) + SeqSum(Tail(s))

(***************************************************************************)
(* Util::ms_to_samples: round(ms * sample_rate / 1000), halves up.         *)
(***************************************************************************)
\* A variant that rounds an exact half down.
ms_to_samples_half_down(ms, sample_rate) ==
    LET num == ms * sample_rate
    IN  (num \div 1000) + (IF num % 1000 > 500 THEN 1 ELSE 0)

ms_to_samples(ms, sample_rate) ==
    LET num == ms * sample_rate
    IN  (num \div 1000) + (IF num % 1000 >= 500 THEN 1 ELSE 0)

(***************************************************************************)
(* The gatings.                                                            *)
(***************************************************************************)
MOMENTARY_DELTA_MS == 100
MOMENTARY_GATE_MS == 400
SHORTTERM_DELTA_MS == 3000
SHORTTERM_GATE_MS == 1000

MOMENTARY_GATING ==
    [gate_len_ms |-> MOMENTARY_GATE_MS, delta_len_ms |-> MOMENTARY_DELTA_MS]
SHORTTERM_GATING ==
    [gate_len_ms |-> SHORTTERM_GATE_MS, delta_len_ms |-> SHORTTERM_DELTA_MS]

CustomGatings ==
    { [gate_len_ms |-> g, delta_len_ms |-> d] : g \in 1..MaxGateMs, d \in 1..MaxDeltaMs }

\* The sample rates of the model: 1000 Hz makes one frame one millisecond,
\* 5 Hz brings the predefined gatings down to a few frames.
SampleRates == {5, 1000}

(***************************************************************************)
(* sampara's BufferedMovingMs: a moving mean of squares over a buffer of   *)
(* fixed capacity.  It is active once the buffer is full, and current() is *)
(* the mean of the squares of the buffered frames, or nothing before.      *)
(***************************************************************************)
BufferedMovingMs_from(cap) == [cap |-> cap, buf |-> <<>>]

BufferedMovingMs_is_active(ms) == Len(ms.buf) = ms.cap

BufferedMovingMs_advance(ms, input) ==
    LET sq == [c \in Channels |-> input[c] * input[c]]
        kept == IF Len(ms.buf) >= ms.cap THEN Tail(ms.buf) ELSE ms.buf
    IN  [ms EXCEPT !.buf = Append(kept, sq)]

BufferedMovingMs_current(ms) ==
    IF BufferedMovingMs_is_active(ms)
    THEN Some([c \in Channels |->
                 Rat(SeqSum([k \in 1..Len(ms.buf) |-> ms.buf[k][c]]), ms.cap)])
    ELSE None

(***************************************************************************)
(* GatedPowers.  i starts at usize::MAX, which is beyond TLC's integers:   *)
(* USIZE_MAX stands for it, and is never incremented before the window is  *)
(* active unless the window has no capacity, which Init excludes.          *)
(***************************************************************************)
USIZE_MAX == -1

\* assert!(frames_per_delta > 0): whether custom() panics instead of returning.
GatedPowers_custom_panics(gating, sample_rate) ==
    LET frames_per_delta == ms_to_samples(gating.delta_len_ms, sample_rate)
    IN  ~(frames_per_delta > 0)

GatedPowers_custom(gating, sample_rate) ==
    LET gate_buffer_len == ms_to_samples(gating.gate_len_ms, sample_rate)
        frames_per_delta == ms_to_samples(gating.delta_len_ms, sample_rate)
    IN  [ms_state |-> BufferedMovingMs_from(gate_buffer_len),
         i |-> USIZE_MAX,
         delta |-> frames_per_delta]

\* A variant of advance that counts modulo delta + 1.
GatedPowers_advance_offbyone(self, input) ==
    LET was_active == BufferedMovingMs_is_active(self.ms_state)
        ms == BufferedMovingMs_advance(self.ms_state, input)
        now_active == BufferedMovingMs_is_active(ms)
    IN  IF now_active
        THEN IF was_active
             THEN [self EXCEPT !.ms_state = ms, !.i = (self.i + 1) % (self.delta + 1)]
             ELSE [self EXCEPT !.ms_state = ms, !.i = 0]
        ELSE [self EXCEPT !.ms_state = ms]

GatedPowers_advance(self, input) ==
    LET was_active == BufferedMovingMs_is_active(self.ms_state)
        ms == BufferedMovingMs_advance(self.ms_state, input)
        now_active == BufferedMovingMs_is_active(ms)
    IN  IF now_active
        THEN IF was_active
             THEN [self EXCEPT !.ms_state = ms, !.i = (self.i + 1) % self.delta]
             ELSE [self EXCEPT !.ms_state = ms, !.i = 0]
        ELSE [self EXCEPT !.ms_state = ms]

\* A variant of current that ignores the position within the delta.
GatedPowers_current_ungated(self) == BufferedMovingMs_current(self.ms_state)

GatedPowers_current(self) ==
    IF self.i = 0 THEN BufferedMovingMs_current(self.ms_state) ELSE None

\* Processor::process: advance, then current.
GatedPowers_process(self, input) ==
    LET next == GatedPowers_advance(self, input)
    IN  [self |-> next, out |-> GatedPowers_current(next)]

gate_frames(self) == self.ms_state.cap
delta_frames(self) == self.delta

(***************************************************************************)
(* SpecGate: one GatedPowers, built for any gating and sample rate of the  *)
(* model that gives it a window of at least one frame, fed frame by frame. *)
(***************************************************************************)
GmsiIdle ==
    /\ gmsi = "unused" /\ gm_pulled = <<>> /\ gm_results = <<>> /\ gm_last = "unused"

LoudIdle == /\ loud = "unused" /\ ld_pushed = <<>> /\ ld_result = "unused"

PipeIdle == /\ pipe = "unused" /\ pp_hist = <<>> /\ pp_popped = "unused"

\* The variables of the later harnesses, all but the one named, are idle.
LateIdleExcept(own) ==
    /\ IF own = "mrg" THEN TRUE ELSE mrg = "unused"
    /\ IF own = "msqs" THEN TRUE ELSE msqs = "unused"
    /\ IF own = "conv" THEN TRUE ELSE conv = "unused"
    /\ IF own = "opts" THEN TRUE ELSE opts = "unused"
    /\ IF own = "rng" THEN TRUE ELSE rng = "unused"
    /\ IF own = "rebuild" THEN TRUE ELSE rebuild = "unused"

LateUnchangedExcept(own) ==
    /\ IF own = "mrg" THEN TRUE ELSE UNCHANGED mrg
    /\ IF own = "msqs" THEN TRUE ELSE UNCHANGED msqs
    /\ IF own = "conv" THEN TRUE ELSE UNCHANGED conv
    /\ IF own = "opts" THEN TRUE ELSE UNCHANGED opts
    /\ IF own = "rng" THEN TRUE ELSE UNCHANGED rng
    /\ IF own = "rebuild" THEN TRUE ELSE UNCHANGED rebuild

LateIdle == LateIdleExcept("none")

ExtraIdle ==
    /\ album = "unused" /\ build = "unused" /\ twin = "unused" /\ rst = "unused"
    /\ peak = "unused" /\ filt = "unused" /\ stats = "unused"
    /\ LateIdle

\* The constructor calls of the model: momentary(sample_rate),
\* shortterm(sample_rate) and custom(gating, sample_rate).
GateCtors ==
    { [kind |-> "momentary", gating |-> MOMENTARY_GATING, sample_rate |-> r] :
        r \in SampleRates }
    \cup
    { [kind |-> "shortterm", gating |-> SHORTTERM_GATING, sample_rate |-> r] :
        r \in SampleRates }
    \cup
    { [kind |-> "custom", gating |-> g, sample_rate |-> r] :
        g \in CustomGatings, r \in SampleRates }

GateInit ==
    /\ \E ctor \in GateCtors :
          /\ ~GatedPowers_custom_panics(ctor.gating, ctor.sample_rate)
          /\ ms_to_samples(ctor.gating.gate_len_ms, ctor.sample_rate) > 0
          /\ gp = GatedPowers_custom(ctor.gating, ctor.sample_rate)
          /\ gp_ctor = ctor
    /\ gp_inputs = <<>>
    /\ gp_outputs = <<>>
    /\ GmsiIdle
    /\ LoudIdle
    /\ PipeIdle
    /\ ExtraIdle

GateProcess(input) ==
    /\ Len(gp_inputs) < MaxFrames
    /\ gp' = GatedPowers_process(gp, input).self
    /\ gp_inputs' = Append(gp_inputs, input)
    /\ gp_outputs' = Append(gp_outputs, GatedPowers_process(gp, input).out)
    /\ UNCHANGED gp_ctor
    /\ UNCHANGED <<gmsiVars, loudVars, pipeVars, extraVars>>

GateNext == \E input \in InputFrames : GateProcess(input)

SpecGate == GateInit /\ [][GateNext]_vars

G_gp == gate_frames(gp)
D_gp == delta_frames(gp)
N_gp == Len(gp_inputs)
EmittedAt == {k \in 1..Len(gp_outputs) : gp_outputs[k].some}

\* C1: GatedPowers emits a power frame on input number k iff the window is
\* full after that input (k >= gate_frames) and the number of inputs since
\* the window first became full (k - gate_frames) is a multiple of
\* delta_frames; so nothing is emitted while filling, and the first emission
\* is on the input that fills the window.
C1_EmitsIffFullAndOnDelta ==
    /\ Len(gp_outputs) = N_gp
    /\ \A k \in 1..N_gp :
          gp_outputs[k].some <=> (k >= G_gp /\ (k - G_gp) % D_gp = 0)

C1_Witness ==
    /\ D_gp >= 2
    /\ G_gp \in EmittedAt
    /\ G_gp + D_gp \in EmittedAt
    /\ G_gp + 1 \in 1..N_gp \ EmittedAt

\* C2: after n inputs the number of power frames emitted is
\* floor((n - gate_frames) / delta_frames) + 1 when n >= gate_frames, else 0.
C2_EmissionCount ==
    Cardinality(EmittedAt) =
        IF N_gp >= G_gp THEN ((N_gp - G_gp) \div D_gp) + 1 ELSE 0

C2_Witness ==
    /\ D_gp >= 2
    /\ N_gp >= G_gp + D_gp + 1
    /\ Cardinality(EmittedAt) = 2

(***************************************************************************)
(* MeanSquare: a running mean of squares, per channel.                     *)
(***************************************************************************)
MeanSquare_new == [curr |-> [c \in Channels |-> RInt(0)], num |-> 0]

MeanSquare_mean_sqs(self) == self.curr

summed_sqs(samples) ==
    [c \in Channels |-> SeqSum([k \in 1..Len(samples) |-> samples[k][c] * samples[k][c]])]

\* A variant of add_samples that divides the first batch by m + 1.
MeanSquare_add_samples_biased(self, samples) ==
    LET n == self.num
        m == Len(samples)
    IN  IF m = 0 THEN self
        ELSE IF n = 0
        THEN [curr |-> [c \in Channels |-> Rat(summed_sqs(samples)[c], m + 1)],
              num |-> m]
        ELSE [curr |-> [c \in Channels |->
                          RDivInt(RAdd(RMul(RInt(n), self.curr[c]),
                                       RInt(summed_sqs(samples)[c])), n + m)],
              num |-> n + m]

\* A variant of add_samples whose running average forgets the weight n of
\* the mean it already holds.
MeanSquare_add_samples_unweighted(self, samples) ==
    LET n == self.num
        m == Len(samples)
    IN  IF m = 0 THEN self
        ELSE IF n = 0
        THEN [curr |-> [c \in Channels |-> Rat(summed_sqs(samples)[c], m)],
              num |-> m]
        ELSE [curr |-> [c \in Channels |->
                          RDivInt(RAdd(self.curr[c],
                                       RInt(summed_sqs(samples)[c])), n + m)],
              num |-> n + m]

MeanSquare_add_samples(self, samples) ==
    LET n == self.num
        m == Len(samples)
    IN  IF m = 0 THEN self
        ELSE IF n = 0
        THEN [curr |-> [c \in Channels |-> Rat(summed_sqs(samples)[c], m)],
              num |-> m]
        ELSE [curr |-> [c \in Channels |->
                          RDivInt(RAdd(RMul(RInt(n), self.curr[c]),
                                       RInt(summed_sqs(samples)[c])), n + m)],
              num |-> n + m]

(***************************************************************************)
(* GatedMeanSquareIter: the pull-based windower over a source iterator.    *)
(* The source is modelled by what it yields: a call of next() that wants   *)
(* k frames gets a chunk of at most k frames, and a chunk shorter than k   *)
(* means that the source returned None after it.  A fused source yields    *)
(* nothing more once it has returned None; an unfused one may.             *)
(***************************************************************************)
GATE_DELTA_MS == 100
GATE_FACTOR == 4
GATE_LENGTH_MS == GATE_DELTA_MS * GATE_FACTOR

GatedMeanSquareIter_new(sample_iter, sample_rate) ==
    [sample_iter |-> sample_iter,
     samples_per_delta |-> ms_to_samples(GATE_DELTA_MS, sample_rate),
     samples_per_gate |-> ms_to_samples(GATE_LENGTH_MS, sample_rate),
     ring_buffer |-> <<>>,
     initialized |-> FALSE]

\* Lines 67-71: cycle out old samples, then push the new one.
RECURSIVE ring_pop_front(_, _)
ring_pop_front(ring_buffer, samples_per_gate) ==
    IF Len(ring_buffer) >= samples_per_gate /\ ring_buffer # <<>>
    THEN ring_pop_front(Tail(ring_buffer), samples_per_gate)
    ELSE ring_buffer

\* A variant of the push that never cycles old samples out.
ring_push_unbounded(ring_buffer, samples_per_gate, sample) ==
    Append(ring_buffer, sample)

ring_push(ring_buffer, samples_per_gate, sample) ==
    Append(ring_pop_front(ring_buffer, samples_per_gate), sample)

RECURSIVE ring_push_all(_, _, _)
ring_push_all(ring_buffer, samples_per_gate, chunk) ==
    IF chunk = <<>> THEN ring_buffer
    ELSE ring_push_all(ring_push(ring_buffer, samples_per_gate, Head(chunk)),
                       samples_per_gate, Tail(chunk))

samples_to_take(self) ==
    IF ~self.initialized THEN self.samples_per_gate ELSE self.samples_per_delta

\* next(): the new iterator and the outcome, given the chunk the source yields.
GatedMeanSquareIter_next(self, chunk) ==
    LET take == samples_to_take(self)
        ring == ring_push_all(self.ring_buffer, self.samples_per_gate, chunk)
        ended == Len(chunk) < take
        next == [self EXCEPT !.initialized = TRUE,
                             !.ring_buffer = ring,
                             !.sample_iter.ended = self.sample_iter.ended \/ ended]
        msq == MeanSquare_add_samples(MeanSquare_new, ring)
    IN  IF ended
        THEN [self |-> next, out |-> [kind |-> "None"]]
        ELSE IF self.samples_per_gate # Len(ring)
        THEN [self |-> next, out |-> [kind |-> "panic"]]
        ELSE [self |-> next, out |-> [kind |-> "Some", val |-> MeanSquare_mean_sqs(msq)]]

(***************************************************************************)
(* SpecGmsi: one GatedMeanSquareIter over a source of at most MaxPulled    *)
(* frames, next() called again and again.                                  *)
(***************************************************************************)
GmsiSampleRates == {5, 15}

GateIdle ==
    /\ gp = "unused" /\ gp_inputs = <<>> /\ gp_outputs = <<>> /\ gp_ctor = "unused"

RECURSIVE SeqsUpTo(_, _)
SeqsUpTo(S, n) ==
    IF n = 0 THEN {<<>>}
    ELSE LET shorter == SeqsUpTo(S, n - 1)
         IN  shorter \cup {Append(q, x) : q \in {r \in shorter : Len(r) = n - 1}, x \in S}

GmsiInit ==
    /\ \E fused \in BOOLEAN, sample_rate \in GmsiSampleRates :
          gmsi = GatedMeanSquareIter_new([fused |-> fused, ended |-> FALSE], sample_rate)
    /\ gm_pulled = <<>>
    /\ gm_results = <<>>
    /\ gm_last = [kind |-> "start"]
    /\ GateIdle
    /\ LoudIdle
    /\ PipeIdle
    /\ ExtraIdle

GmsiNextCall(chunk) ==
    /\ gm_last.kind # "panic"
    /\ Len(gm_pulled) + Len(chunk) <= MaxPulled
    /\ (gmsi.sample_iter.fused /\ gmsi.sample_iter.ended) => chunk = <<>>
    /\ LET r == GatedMeanSquareIter_next(gmsi, chunk)
       IN  /\ gmsi' = r.self
           /\ gm_last' = r.out
           /\ gm_pulled' = gm_pulled \o chunk
           /\ gm_results' =
                 IF r.out.kind = "Some"
                 THEN Append(gm_results, [at |-> Len(gm_pulled) + Len(chunk),
                                          frame |-> r.out.val])
                 ELSE gm_results
    /\ UNCHANGED <<gateVars, loudVars, pipeVars, extraVars>>

GmsiNext == \E chunk \in SeqsUpTo(InputFrames, samples_to_take(gmsi)) : GmsiNextCall(chunk)

SpecGmsi == GmsiInit /\ [][GmsiNext]_vars

GmsiG == gmsi.samples_per_gate
GmsiD == gmsi.samples_per_delta

\* The mean of the squares of the G frames of stream that end at position at.
WindowMeanSq(stream, at, G) ==
    [c \in Channels |->
        Rat(SeqSum([k \in 1..G |-> stream[at - G + k][c] * stream[at - G + k][c]]), G)]

\* C3: every power frame the windower emits is, channel by channel, the
\* arithmetic mean of the squares of the last gate_frames frames pulled from
\* the source; and over a stream (a source that yields nothing after its
\* end) the first emission covers frames 1..gate_frames and the k-th one
\* ends (k - 1) * delta_frames frames further on.
C3_EmittedIsWindowMeanSquare ==
    \A k \in 1..Len(gm_results) :
        /\ gm_results[k].at \in GmsiG..Len(gm_pulled)
        /\ gm_results[k].frame = WindowMeanSq(gm_pulled, gm_results[k].at, GmsiG)
        /\ gmsi.sample_iter.fused => gm_results[k].at = GmsiG + (k - 1) * GmsiD

C3_Witness ==
    /\ gmsi.sample_iter.fused
    /\ GmsiD = 2
    /\ Len(gm_results) = 2
    /\ gm_results[1].frame # gm_results[2].frame
    /\ \A c \in Channels : gm_results[2].frame[c][1] > 0 /\ gm_results[2].frame[c][2] > 1

\* C4: the predefined gatings are MOMENTARY = (400, 100) and SHORT_TERM =
\* (3000, 1000), and in each gate_len_ms is a positive multiple of
\* delta_len_ms, with ratios 4 and 3: so are the gatings of the windowers
\* that momentary() and shortterm() build.
C4_PredefinedGatings ==
    /\ gp_ctor.kind = "momentary" =>
          /\ gp_ctor.gating = [gate_len_ms |-> 400, delta_len_ms |-> 100]
          /\ gp_ctor.gating.gate_len_ms = 4 * gp_ctor.gating.delta_len_ms
    /\ gp_ctor.kind = "shortterm" =>
          /\ gp_ctor.gating = [gate_len_ms |-> 3000, delta_len_ms |-> 1000]
          /\ gp_ctor.gating.gate_len_ms = 3 * gp_ctor.gating.delta_len_ms

(***************************************************************************)
(* Util::lufs and Util::loudness.  lufs(x) = -0.691 + 10 * log10(x).  The  *)
(* model gives it in thousandths of a loudness unit, with log10 taken from *)
(* a table of 10^(k/100) and rounded down to a hundredth; a power of value *)
(* x stands for x * 10^-8, which adds 10 * log10(10^-8) = -80.  log10(0)   *)
(* is -infinity, below every threshold: NEG_INFINITY stands for it.  (A    *)
(* negative power would give NaN, which no comparison accepts either; the  *)
(* powers of the model are sums of squares with positive weights.)         *)
(***************************************************************************)
NEG_INFINITY == -100000000

Pow10Table ==
    <<   1000, 1023, 1047, 1072, 1096, 1122, 1148, 1175, 1202, 1230,
         1259, 1288, 1318, 1349, 1380, 1413, 1445, 1479, 1514, 1549,
         1585, 1622, 1660, 1698, 1738, 1778, 1820, 1862, 1905, 1950,
         1995, 2042, 2089, 2138, 2188, 2239, 2291, 2344, 2399, 2455,
         2512, 2570, 2630, 2692, 2754, 2818, 2884, 2951, 3020, 3090,
         3162, 3236, 3311, 3388, 3467, 3548, 3631, 3715, 3802, 3890,
         3981, 4074, 4169, 4266, 4365, 4467, 4571, 4677, 4786, 4898,
         5012, 5129, 5248, 5370, 5495, 5623, 5754, 5888, 6026, 6166,
         6310, 6457, 6607, 6761, 6918, 7079, 7244, 7413, 7586, 7762,
         7943, 8128, 8318, 8511, 8710, 8913, 9120, 9333, 9550, 9772,
         10000 >>

\* The k in lo..hi-1 with 10^(k/100) <= n/d < 10^((k+1)/100), by bisection,
\* for 10^(lo/100) <= n/d < 10^(hi/100).
RECURSIVE log10_mantissa(_, _, _, _)
log10_mantissa(n, d, lo, hi) ==
    IF hi - lo = 1 THEN lo
    ELSE LET mid == (lo + hi) \div 2
         IN  IF Pow10Table[mid + 1] * d <= n * 1000
             THEN log10_mantissa(n, d, mid, hi)
             ELSE log10_mantissa(n, d, lo, mid)

\* floor(100 * log10(n / d)) for n, d > 0.
RECURSIVE log10_hundredths(_, _, _)
log10_hundredths(n, d, e) ==
    IF n < d THEN log10_hundredths(n * 10, d, e - 1)
    ELSE IF n >= 10 * d THEN log10_hundredths(n, d * 10, e + 1)
    ELSE 100 * e + log10_mantissa(n, d, 0, 100)

lufs(x) ==
    IF x[1] <= 0 THEN NEG_INFINITY
    ELSE -691 - 80000 + 100 * log10_hundredths(x[1], x[2], 0)

RECURSIVE RSum(_)
RSum(s) == IF s = <<>> THEN RInt(0) ELSE RAdd(Head(s), RSum(Tail(s)))

Util_loudness(mean_sq, weights) ==
    lufs(RSum([c \in Channels |-> RMul(mean_sq[c], weights[c])]))

(***************************************************************************)
(* sampara's CumulativeMean: a count and the mean of the frames advanced   *)
(* so far, updated as mean + (frame - mean) / new_count.                   *)
(***************************************************************************)
CumulativeMean_default == [count |-> 0, mean |-> [c \in Channels |-> RInt(0)]]

CumulativeMean_advance(cm, frame) ==
    LET new_count == cm.count + 1
    IN  [count |-> new_count,
         mean |-> [c \in Channels |->
                     RAdd(cm.mean[c], RDivInt(RSub(frame[c], cm.mean[c]), new_count))]]

CumulativeMean_is_empty(cm) == cm.count = 0

CumulativeMean_try_current(cm) == IF cm.count = 0 THEN None ELSE Some(cm.mean)

(***************************************************************************)
(* Loudness: the two-pass absolute / relative gating.                      *)
(***************************************************************************)
ABS_LOUDNESS_THRESH == -70000

Loudness_new(g_weights) ==
    [abs_averager |-> CumulativeMean_default,
     abs_loud_frames |-> <<>>,
     g_weights |-> g_weights]

\* A variant of push without the absolute gate.
Loudness_push_ungated(self, gated_powers) ==
    LET frame_loudness == Util_loudness(gated_powers, self.g_weights)
    IN  [self EXCEPT
            !.abs_averager = CumulativeMean_advance(self.abs_averager, gated_powers),
            !.abs_loud_frames = Append(self.abs_loud_frames, <<frame_loudness, gated_powers>>)]

\* A variant of push that saves a loud frame without counting it in the
\* running mean.
Loudness_push_uncounted(self, gated_powers) ==
    LET frame_loudness == Util_loudness(gated_powers, self.g_weights)
    IN  IF frame_loudness > ABS_LOUDNESS_THRESH
        THEN [self EXCEPT
                !.abs_loud_frames = Append(self.abs_loud_frames, <<frame_loudness, gated_powers>>)]
        ELSE self

Loudness_push(self, gated_powers) ==
    LET frame_loudness == Util_loudness(gated_powers, self.g_weights)
    IN  IF frame_loudness > ABS_LOUDNESS_THRESH
        THEN [self EXCEPT
                !.abs_averager = CumulativeMean_advance(self.abs_averager, gated_powers),
                !.abs_loud_frames = Append(self.abs_loud_frames, <<frame_loudness, gated_powers>>)]
        ELSE self

Loudness_is_empty(self) == CumulativeMean_is_empty(self.abs_averager)

\* Lines 75-82: the relative pass over the saved frames.
RECURSIVE rel_pass(_, _, _)
rel_pass(rel_averager, abs_loud_frames, rel_loudness_thresh) ==
    IF abs_loud_frames = <<>> THEN rel_averager
    ELSE LET frame_loudness == Head(abs_loud_frames)[1]
             channel_powers == Head(abs_loud_frames)[2]
         IN  rel_pass(IF frame_loudness > rel_loudness_thresh
                      THEN CumulativeMean_advance(rel_averager, channel_powers)
                      ELSE rel_averager,
                      Tail(abs_loud_frames), rel_loudness_thresh)

\* A variant of calculate that gates at the absolute loudness itself.
Loudness_calculate_no_offset(self) ==
    LET abs_avg_gated_power == CumulativeMean_try_current(self.abs_averager)
    IN  IF ~abs_avg_gated_power.some THEN None
        ELSE LET abs_loudness == Util_loudness(abs_avg_gated_power.val, self.g_weights)
                 rel_loudness_thresh == abs_loudness
                 rel_averager == rel_pass(CumulativeMean_default, self.abs_loud_frames,
                                          rel_loudness_thresh)
                 rel_avg_gated_power == CumulativeMean_try_current(rel_averager)
             IN  IF ~rel_avg_gated_power.some THEN None
                 ELSE Some(Util_loudness(rel_avg_gated_power.val, self.g_weights))

\* A variant of calculate that reads the means without the emptiness checks.
Loudness_calculate_unchecked(self) ==
    LET abs_loudness == Util_loudness(self.abs_averager.mean, self.g_weights)
        rel_loudness_thresh == abs_loudness - 10000
        rel_averager == rel_pass(CumulativeMean_default, self.abs_loud_frames,
                                 rel_loudness_thresh)
    IN  Some(Util_loudness(rel_averager.mean, self.g_weights))

\* A variant of calculate whose relative pass keeps the frames at or below
\* the relative threshold.
Loudness_calculate_quiet_side(self) ==
    LET abs_avg_gated_power == CumulativeMean_try_current(self.abs_averager)
    IN  IF ~abs_avg_gated_power.some THEN None
        ELSE LET abs_loudness == Util_loudness(abs_avg_gated_power.val, self.g_weights)
                 rel_loudness_thresh == abs_loudness - 10000
                 quiet(entry) == entry[1] <= rel_loudness_thresh
                 rel_averager == rel_pass(CumulativeMean_default,
                                          SelectSeq(self.abs_loud_frames, quiet),
                                          NEG_INFINITY)
                 rel_avg_gated_power == CumulativeMean_try_current(rel_averager)
             IN  IF ~rel_avg_gated_power.some THEN None
                 ELSE Some(Util_loudness(rel_avg_gated_power.val, self.g_weights))

Loudness_calculate(self) ==
    LET abs_avg_gated_power == CumulativeMean_try_current(self.abs_averager)
    IN  IF ~abs_avg_gated_power.some THEN None
        ELSE LET abs_loudness == Util_loudness(abs_avg_gated_power.val, self.g_weights)
                 rel_loudness_thresh == abs_loudness - 10000
                 rel_averager == rel_pass(CumulativeMean_default, self.abs_loud_frames,
                                          rel_loudness_thresh)
                 rel_avg_gated_power == CumulativeMean_try_current(rel_averager)
             IN  IF ~rel_avg_gated_power.some THEN None
                 ELSE Some(Util_loudness(rel_avg_gated_power.val, self.g_weights))

(***************************************************************************)
(* SpecLoud: one Loudness aggregator, given power frames and then          *)
(* finalized.  The power frames range from silence over frames below the   *)
(* absolute threshold (a weighted sum under 11.75) to loud ones, with      *)
(* pairs that lie exactly and nearly 10 LU apart.                          *)
(***************************************************************************)
PowerPairs == {<<0, 0>>, <<2, 3>>, <<12, 4>>, <<20, 0>>, <<380, 0>>, <<1500, 700>>}

PowerFrames ==
    { [c \in Channels |-> IF c <= 2 THEN RInt(pp[c]) ELSE RInt(0)] : pp \in PowerPairs }

\* Per-channel weights: all ones, and 3/2 on the even channels.
GWeights ==
    { [c \in Channels |-> RInt(1)],
      [c \in Channels |-> IF c % 2 = 0 THEN Rat(3, 2) ELSE RInt(1)] }

LoudInit ==
    /\ \E g_weights \in GWeights : loud = Loudness_new(g_weights)
    /\ ld_pushed = <<>>
    /\ ld_result = [called |-> FALSE]
    /\ GateIdle
    /\ GmsiIdle
    /\ PipeIdle
    /\ ExtraIdle

LoudPush(gated_powers) ==
    /\ ~ld_result.called
    /\ Len(ld_pushed) < MaxPowers
    /\ loud' = Loudness_push(loud, gated_powers)
    /\ ld_pushed' = Append(ld_pushed, gated_powers)
    /\ UNCHANGED <<ld_result, gateVars, gmsiVars, pipeVars, extraVars>>

\* calculate(self) consumes the aggregator: nothing is pushed afterwards.
LoudCalculate ==
    /\ ~ld_result.called
    /\ ld_result' = [called |-> TRUE, out |-> Loudness_calculate(loud)]
    /\ UNCHANGED <<loud, ld_pushed, gateVars, gmsiVars, pipeVars, extraVars>>

LoudNext == (\E gated_powers \in PowerFrames : LoudPush(gated_powers)) \/ LoudCalculate

SpecLoud == LoudInit /\ [][LoudNext]_vars

\* The arithmetic mean of a non-empty sequence of power frames.
MeanOf(frames) ==
    [c \in Channels |->
        RDivInt(RSum([k \in 1..Len(frames) |-> frames[k][c]]), Len(frames))]

\* L(p) = -0.691 + 10 log10(sum of G_c * p_c), in thousandths.
L(p, G) == lufs(RSum([c \in Channels |-> RMul(G[c], p[c])]))

\* The frames of a sequence that are louder than a threshold.
LouderThan(frames, G, thresh) ==
    LET louder(p) == L(p, G) > thresh
    IN  SelectSeq(frames, louder)

LdRetained == LouderThan(ld_pushed, loud.g_weights, -70000)

\* C5: push retains a power frame p iff L(p) > -70: the retained list is the
\* list of (L(p), p) of the pushed frames with L(p) > -70, in order, and the
\* absolute running mean counts and averages exactly those; a frame with
\* L(p) <= -70 changes nothing.
C5_PushRetainsIffAboveAbsThresh ==
    LET retained == LdRetained
    IN  /\ Len(loud.abs_loud_frames) = Len(retained)
        /\ \A k \in 1..Len(retained) :
              loud.abs_loud_frames[k] = <<L(retained[k], loud.g_weights), retained[k]>>
        /\ loud.abs_averager.count = Len(retained)
        /\ retained # <<>> => loud.abs_averager.mean = MeanOf(retained)
        /\ retained = <<>> => loud = Loudness_new(loud.g_weights)

C5_Witness ==
    LET retained == LdRetained
    IN  /\ Len(retained) >= 2
        /\ Len(ld_pushed) >= Len(retained) + 2
        /\ \E k \in 1..Len(ld_pushed) :
              /\ ld_pushed[k] \notin {retained[j] : j \in 1..Len(retained)}
              /\ \E c \in Channels : ld_pushed[k][c] # RInt(0)

\* C6: calculate returns L(P_rel), where P_rel is the mean of exactly the
\* retained frames p with L(p) > L(P_abs) - 10 and P_abs is the mean of all
\* retained frames; frames rejected by the absolute gate are in neither.
C6_CalculateIsRelativeGatedLoudness ==
    ld_result.called =>
        LET retained == LdRetained
            rel_thresh == L(MeanOf(retained), loud.g_weights) - 10000
            relative == LouderThan(retained, loud.g_weights, rel_thresh)
        IN  retained # <<>> =>
              /\ relative # <<>>
              /\ ld_result.out = Some(L(MeanOf(relative), loud.g_weights))

C6_Witness ==
    /\ ld_result.called
    /\ ld_result.out.some
    /\ LET retained == LdRetained
           rel_thresh == L(MeanOf(retained), loud.g_weights) - 10000
           relative == LouderThan(retained, loud.g_weights, rel_thresh)
       IN  /\ Len(retained) < Len(ld_pushed)
           /\ Len(relative) >= 2
           /\ Len(relative) < Len(retained)

(***************************************************************************)
(* The K-weighting filter: two biquad passes, each with two accumulators   *)
(* per channel.  Biquad::new derives the coefficients from the sample rate *)
(* with tan and powf, in f64; the model computes on integers and fixes     *)
(* integer coefficients of the same shape: pass A has gain 1 at DC and 5/3 *)
(* at the highest frequency (a shelf), pass B has (b0, b1, b2) =           *)
(* (1, -2, 1) as in the program, and so gain 0 at DC (a high pass).        *)
(***************************************************************************)
Biquad_new(kind, sample_rate) ==
    IF kind = "A"
    THEN [a1 |-> -1, a2 |-> 1, b0 |-> 2, b1 |-> -2, b2 |-> 1]
    ELSE [a1 |-> -1, a2 |-> 1, b0 |-> 1, b1 |-> -2, b2 |-> 1]

Applicator_new(kind, sample_rate) ==
    [biquad |-> Biquad_new(kind, sample_rate),
     s1 |-> [c \in Channels |-> 0],
     s2 |-> [c \in Channels |-> 0]]

\* A variant of apply in which every channel reads the first channel's
\* accumulators.
Applicator_apply_shared(self, input) ==
    LET out == [c \in Channels |-> self.s1[1] + self.biquad.b0 * input[c]]
    IN  [self |-> [self EXCEPT
                     !.s1 = [c \in Channels |->
                               self.s2[1] + self.biquad.b1 * input[c] - self.biquad.a1 * out[c]],
                     !.s2 = [c \in Channels |->
                               self.biquad.b2 * input[c] - self.biquad.a2 * out[c]]],
         output |-> out]

Applicator_apply(self, input) ==
    LET out == [c \in Channels |-> self.s1[c] + self.biquad.b0 * input[c]]
    IN  [self |-> [self EXCEPT
                     !.s1 = [c \in Channels |->
                               self.s2[c] + self.biquad.b1 * input[c] - self.biquad.a1 * out[c]],
                     !.s2 = [c \in Channels |->
                               self.biquad.b2 * input[c] - self.biquad.a2 * out[c]]],
         output |-> out]

KWeightFilter_new(sample_rate) ==
    [sample_rate |-> sample_rate,
     pass_a |-> Applicator_new("A", sample_rate),
     pass_b |-> Applicator_new("B", sample_rate)]

KWeightFilter_process(self, input) ==
    LET a == Applicator_apply(self.pass_a, input)
        b == Applicator_apply(self.pass_b, a.output)
    IN  [self |-> [self EXCEPT !.pass_a = a.self, !.pass_b = b.self],
         output |-> b.output]

(***************************************************************************)
(* GatedLoudness: a windower feeding an aggregator.                        *)
(***************************************************************************)
GatedLoudness_new(sample_rate, g_weights, gating) ==
    [gated_powers |-> GatedPowers_custom(gating, sample_rate),
     loudness |-> Loudness_new(g_weights)]

GatedLoudness_momentary(sample_rate, g_weights) ==
    GatedLoudness_new(sample_rate, g_weights, MOMENTARY_GATING)

GatedLoudness_shortterm(sample_rate, g_weights) ==
    GatedLoudness_new(sample_rate, g_weights, SHORTTERM_GATING)

GatedLoudness_push(self, input) ==
    LET r == GatedPowers_process(self.gated_powers, input)
    IN  IF r.out.some
        THEN [gated_powers |-> r.self, loudness |-> Loudness_push(self.loudness, r.out.val)]
        ELSE [self EXCEPT !.gated_powers = r.self]

GatedLoudness_calculate(self) == Loudness_calculate(self.loudness)

(***************************************************************************)
(* PipelineLayer: one K-filter and the registered gated loudnesses.        *)
(***************************************************************************)
PipelineLayer_is_noop(self) ==
    /\ ~self.momentary_gl.some
    /\ ~self.shortterm_gl.some
    /\ DOMAIN self.custom_gl_map = {}

PipelineLayer_push(self, input) ==
    LET k == KWeightFilter_process(self.k_filter, input)
        filtered_frame == k.output
    IN  [k_filter |-> k.self,
         momentary_gl |->
            IF self.momentary_gl.some
            THEN Some(GatedLoudness_push(self.momentary_gl.val, filtered_frame))
            ELSE None,
         shortterm_gl |->
            IF self.shortterm_gl.some
            THEN Some(GatedLoudness_push(self.shortterm_gl.val, filtered_frame))
            ELSE None,
         custom_gl_map |->
            [g \in DOMAIN self.custom_gl_map |->
                GatedLoudness_push(self.custom_gl_map[g], filtered_frame)]]

PipelineLayer_calculate(self) ==
    [momentary_mean |->
        IF self.momentary_gl.some THEN GatedLoudness_calculate(self.momentary_gl.val) ELSE None,
     shortterm_mean |->
        IF self.shortterm_gl.some THEN GatedLoudness_calculate(self.shortterm_gl.val) ELSE None,
     custom_gating_means |->
        [g \in DOMAIN self.custom_gl_map |-> GatedLoudness_calculate(self.custom_gl_map[g])]]

(***************************************************************************)
(* LayeredPipeline: the stack of layers, the root first.                   *)
(***************************************************************************)
\* A variant of push_frame that feeds the top layer only.
push_frame_top_only(self, frame) ==
    [self EXCEPT !.layers =
        [k \in 1..Len(self.layers) |->
            IF k = Len(self.layers) THEN PipelineLayer_push(self.layers[k], frame)
            ELSE self.layers[k]]]

push_frame(self, frame) ==
    [self EXCEPT !.layers =
        [k \in 1..Len(self.layers) |-> PipelineLayer_push(self.layers[k], frame)]]

\* Lines 154-170: the layer that push_layer builds.
new_layer(self) ==
    [k_filter |-> KWeightFilter_new(self.sample_rate),
     momentary_gl |->
        IF self.calc_momentary
        THEN Some(GatedLoudness_momentary(self.sample_rate, self.g_weights)) ELSE None,
     shortterm_gl |->
        IF self.calc_shortterm
        THEN Some(GatedLoudness_shortterm(self.sample_rate, self.g_weights)) ELSE None,
     custom_gl_map |->
        [g \in self.custom_gatings |-> GatedLoudness_new(self.sample_rate, self.g_weights, g)]]

\* A variant of push_layer that starts the new layer as a copy of the top one.
push_layer_clone(self) ==
    [self EXCEPT !.layers =
        Append(self.layers,
               IF self.layers = <<>> THEN new_layer(self) ELSE self.layers[Len(self.layers)])]

push_layer(self) == [self EXCEPT !.layers = Append(self.layers, new_layer(self))]

\* A variant of pop_layer that takes the oldest layer.
pop_layer_fifo(self) ==
    IF self.layers = <<>>
    THEN [self |-> self, out |-> None]
    ELSE [self |-> [self EXCEPT !.layers = Tail(self.layers)],
          out |-> Some(PipelineLayer_calculate(Head(self.layers)))]

\* A variant of pop_layer that drops every layer.
pop_layer_drain(self) ==
    IF self.layers = <<>>
    THEN [self |-> self, out |-> None]
    ELSE [self |-> [self EXCEPT !.layers = <<>>],
          out |-> Some(PipelineLayer_calculate(self.layers[Len(self.layers)]))]

pop_layer(self) ==
    IF self.layers = <<>>
    THEN [self |-> self, out |-> None]
    ELSE [self |-> [self EXCEPT !.layers = SubSeq(self.layers, 1, Len(self.layers) - 1)],
          out |-> Some(PipelineLayer_calculate(self.layers[Len(self.layers)]))]

(***************************************************************************)
(* SpecPipe: one LayeredPipeline with no layer yet, for any choice of the  *)
(* measurements, then any calls of push_layer, push_frame and pop_layer.   *)
(* At 5 Hz the momentary window is 2 frames every 1, the short-term one 5  *)
(* frames every 15, the custom one (600 ms, 400 ms) 3 frames every 2.      *)
(***************************************************************************)
PipeSampleRates == {5}
PipeCustomGatings == {[gate_len_ms |-> 600, delta_len_ms |-> 400]}
PipeWeights == {[c \in Channels |-> RInt(1)]}

PipeInit ==
    /\ \E sample_rate \in PipeSampleRates, g_weights \in PipeWeights,
          calc_momentary \in BOOLEAN, calc_shortterm \in BOOLEAN,
          custom_gatings \in SUBSET PipeCustomGatings :
          pipe = [sample_rate |-> sample_rate,
                  g_weights |-> g_weights,
                  calc_momentary |-> calc_momentary,
                  calc_shortterm |-> calc_shortterm,
                  custom_gatings |-> custom_gatings,
                  layers |-> <<>>]
    /\ pp_hist = <<>>
    /\ pp_popped = [called |-> FALSE]
    /\ GateIdle
    /\ GmsiIdle
    /\ LoudIdle
    /\ ExtraIdle

PipePushFrame(frame) ==
    /\ Len(pp_hist) < MaxCalls
    /\ pipe' = push_frame(pipe, frame)
    /\ pp_hist' = Append(pp_hist, [op |-> "push_frame", frame |-> frame])
    /\ UNCHANGED <<pp_popped, gateVars, gmsiVars, loudVars, extraVars>>

PipePushLayer ==
    /\ Len(pp_hist) < MaxCalls
    /\ Len(pipe.layers) < MaxDepth
    /\ pipe' = push_layer(pipe)
    /\ pp_hist' = Append(pp_hist, [op |-> "push_layer"])
    /\ UNCHANGED <<pp_popped, gateVars, gmsiVars, loudVars, extraVars>>

PipePopLayer ==
    /\ Len(pp_hist) < MaxCalls
    /\ pipe' = pop_layer(pipe).self
    /\ pp_popped' = [called |-> TRUE, out |-> pop_layer(pipe).out]
    /\ pp_hist' = Append(pp_hist, [op |-> "pop_layer", some |-> pop_layer(pipe).out.some])
    /\ UNCHANGED <<gateVars, gmsiVars, loudVars, extraVars>>

PipeNext ==
    \/ \E frame \in InputFrames : PipePushFrame(frame)
    \/ PipePushLayer
    \/ PipePopLayer

SpecPipe == PipeInit /\ [][PipeNext]_vars

(***************************************************************************)
(* What the calls made so far say the pipeline should hold.                *)
(***************************************************************************)
\* The positions in h[1..n] of the push_layer calls not yet popped, oldest first.
RECURSIVE OpenLayers(_, _)
OpenLayers(h, n) ==
    IF n = 0 THEN <<>>
    ELSE LET st == OpenLayers(h, n - 1)
         IN  IF h[n].op = "push_layer" THEN Append(st, n)
             ELSE IF h[n].op = "pop_layer" /\ st # <<>> THEN SubSeq(st, 1, Len(st) - 1)
             ELSE st

\* The frames pushed by the calls h[from+1..to], in order.
RECURSIVE FramesBetween(_, _, _)
FramesBetween(h, from, to) ==
    IF to <= from THEN <<>>
    ELSE IF h[to].op = "push_frame"
         THEN Append(FramesBetween(h, from, to - 1), h[to].frame)
         ELSE FramesBetween(h, from, to - 1)

\* A fresh layer of this pipeline after it has been pushed the frames, one by one.
RECURSIVE Replay(_, _)
Replay(self, frames) ==
    IF frames = <<>> THEN new_layer(self)
    ELSE PipelineLayer_push(Replay(self, SubSeq(frames, 1, Len(frames) - 1)),
                            frames[Len(frames)])

CountOps(h, P(_)) == Cardinality({i \in 1..Len(h) : P(h[i])})
IsPushLayer(e) == e.op = "push_layer"
IsPop(e) == e.op = "pop_layer"
IsGoodPop(e) == e.op = "pop_layer" /\ e.some

LastIsPop == pp_hist # <<>> /\ pp_hist[Len(pp_hist)].op = "pop_layer"
LastIsFrame == pp_hist # <<>> /\ pp_hist[Len(pp_hist)].op = "push_frame"

\* The frames that the layer removed by the latest call (a pop) had been pushed.
PoppedFrames ==
    LET n == Len(pp_hist)
        st == OpenLayers(pp_hist, n - 1)
    IN  FramesBetween(pp_hist, st[Len(st)], n)

\* The gated loudnesses registered in a layer, by name.
Registered(layer) ==
    (IF layer.momentary_gl.some THEN {[kind |-> "momentary"]} ELSE {})
    \cup (IF layer.shortterm_gl.some THEN {[kind |-> "shortterm"]} ELSE {})
    \cup {[kind |-> "custom", gating |-> g] : g \in DOMAIN layer.custom_gl_map}

GlOf(layer, g) ==
    IF g.kind = "momentary" THEN layer.momentary_gl.val
    ELSE IF g.kind = "shortterm" THEN layer.shortterm_gl.val
    ELSE layer.custom_gl_map[g.gating]

MeanOfOutput(out, g) ==
    IF g.kind = "momentary" THEN out.momentary_mean
    ELSE IF g.kind = "shortterm" THEN out.shortterm_mean
    ELSE out.custom_gating_means[g.gating]

Silent(frame) == \A c \in Channels : frame[c] = 0

\* C7: finalizing an aggregator that retained no frame returns None; in
\* particular a layer popped after fewer frames than a gating's window, or
\* after silent frames only, reports None for every registered gating.
C7_NoRetainedFrameGivesNone ==
    (LastIsPop /\ pp_popped.out.some) =>
        LET frames == PoppedFrames
            layer == Replay(pipe, frames)
            out == pp_popped.out.val
        IN  \A g \in Registered(layer) :
                LET gl == GlOf(layer, g)
                    short == Len(frames) < gate_frames(gl.gated_powers)
                    silent == \A i \in 1..Len(frames) : Silent(frames[i])
                    empty == gl.loudness.abs_loud_frames = <<>>
                IN  /\ (short \/ silent) => empty
                    /\ empty => MeanOfOutput(out, g) = None

\* A layer was popped after enough frames, not all silent, for a window that
\* still retained nothing, and another after silent frames filling a window.
C7_Witness ==
    /\ LastIsPop /\ pp_popped.out.some
    /\ LET frames == PoppedFrames
           layer == Replay(pipe, frames)
       IN  /\ [kind |-> "momentary"] \in Registered(layer)
           /\ Len(frames) >= gate_frames(layer.momentary_gl.val.gated_powers)
           /\ \E i \in 1..Len(frames) : ~Silent(frames[i])
           /\ layer.momentary_gl.val.loudness.abs_loud_frames = <<>>
           /\ pp_popped.out.val.momentary_mean = None

\* C8: every frame pushed reaches every open layer once: each layer is what
\* a fresh layer becomes when pushed, one by one, the raw frames pushed since
\* that layer was opened, through its own filter and windows.
C8_EveryLayerGetsEveryFrame ==
    LET st == OpenLayers(pp_hist, Len(pp_hist))
    IN  /\ Len(pipe.layers) = Len(st)
        /\ \A k \in 1..Len(st) :
              pipe.layers[k] = Replay(pipe, FramesBetween(pp_hist, st[k], Len(pp_hist)))

\* Two layers opened at different times have both taken the latest frame and
\* hold different states.
C8_Witness ==
    /\ LastIsFrame
    /\ Len(pipe.layers) = 2
    /\ pipe.layers[1] # pipe.layers[2]
    /\ ~PipelineLayer_is_noop(pipe.layers[1])
    /\ \E g \in Registered(pipe.layers[2]) :
          GlOf(pipe.layers[2], g).loudness.abs_loud_frames # <<>>

\* C9: pop_layer removes the layer pushed latest among those still open and
\* returns its result (None when no layer is open), and the depth is the
\* number of push_layer calls minus the number of pops that returned a result.
C9_PopIsLifoAndDepthCounts ==
    /\ Len(pipe.layers) = CountOps(pp_hist, IsPushLayer) - CountOps(pp_hist, IsGoodPop)
    /\ LastIsPop =>
          LET st == OpenLayers(pp_hist, Len(pp_hist) - 1)
          IN  IF st = <<>>
              THEN pp_popped.out = None
              ELSE pp_popped.out =
                     Some(PipelineLayer_calculate(Replay(pipe, PoppedFrames)))

\* Two layers were open with different histories, and the pop returned a
\* loudness for the later one.
C9_Witness ==
    /\ LastIsPop /\ pp_popped.out.some
    /\ Len(pipe.layers) = 1
    /\ CountOps(pp_hist, IsPop) >= 1
    /\ \E g \in Registered(pipe.layers[1]) : MeanOfOutput(pp_popped.out.val, g).some
    /\ PipelineLayer_calculate(pipe.layers[1]) # pp_popped.out.val

\* C10: a pop_layer call leaves every remaining layer, and the pipeline's
\* configuration, exactly as it was.
C10_PopLeavesRemainingLayers ==
    [][(Len(pp_hist') = Len(pp_hist) + 1 /\ pp_hist'[Len(pp_hist')].op = "pop_layer") =>
          /\ \A k \in 1..(Len(pipe.layers) - 1) :
                /\ k \in DOMAIN pipe'.layers
                /\ pipe'.layers[k] = pipe.layers[k]
          /\ [pipe' EXCEPT !.layers = <<>>] = [pipe EXCEPT !.layers = <<>>]]_vars

\* A layer was popped in the middle of a stream: the layer that remains has
\* retained frames and has been pushed more frames since.
C10_Witness ==
    /\ LastIsFrame
    /\ CountOps(pp_hist, IsGoodPop) >= 1
    /\ Len(pipe.layers) >= 1
    /\ \E i \in 1..Len(pp_hist) :
          /\ IsGoodPop(pp_hist[i])
          /\ OpenLayers(pp_hist, i) # <<>>
          /\ OpenLayers(pp_hist, i) = OpenLayers(pp_hist, Len(pp_hist))
          /\ FramesBetween(pp_hist, OpenLayers(pp_hist, i)[1], i) # <<>>
    /\ \E g \in Registered(pipe.layers[1]) :
          GlOf(pipe.layers[1], g).loudness.abs_loud_frames # <<>>

(***************************************************************************)
(* Pipeline: a layer that owns its parent.  Its upstream is either the     *)
(* parent pipeline or, for the root, the configuration.                    *)
(***************************************************************************)
Upstream_Source(config) == [kind |-> "Source", config |-> config]
Upstream_Parent(parent_pipeline) == [kind |-> "Parent", parent |-> parent_pipeline]

RECURSIVE Upstream_config(_)
Upstream_config(self) ==
    IF self.kind = "Parent" THEN Upstream_config(self.parent.upstream) ELSE self.config

Upstream_into_parent(self) ==
    IF self.kind = "Parent" THEN Some(self.parent) ELSE None

Pipeline_is_noop(self) ==
    /\ ~self.momentary_gl.some
    /\ ~self.shortterm_gl.some
    /\ DOMAIN self.custom_gl_map = {}

\* A variant of spawn_child that leaves out the custom gatings.
Pipeline_spawn_child_no_custom(self) ==
    LET config == Upstream_config(self.upstream)
    IN  [k_filter |-> KWeightFilter_new(config.sample_rate),
         momentary_gl |->
            IF self.momentary_gl.some
            THEN Some(GatedLoudness_momentary(config.sample_rate, config.g_weights)) ELSE None,
         shortterm_gl |->
            IF self.shortterm_gl.some
            THEN Some(GatedLoudness_shortterm(config.sample_rate, config.g_weights)) ELSE None,
         custom_gl_map |-> [gating \in {} |-> None],
         upstream |-> Upstream_Parent(self)]

Pipeline_spawn_child(self) ==
    LET config == Upstream_config(self.upstream)
    IN  [k_filter |-> KWeightFilter_new(config.sample_rate),
         momentary_gl |->
            IF self.momentary_gl.some
            THEN Some(GatedLoudness_momentary(config.sample_rate, config.g_weights)) ELSE None,
         shortterm_gl |->
            IF self.shortterm_gl.some
            THEN Some(GatedLoudness_shortterm(config.sample_rate, config.g_weights)) ELSE None,
         custom_gl_map |->
            [gating \in DOMAIN self.custom_gl_map |->
                GatedLoudness_new(config.sample_rate, config.g_weights, gating)],
         upstream |-> Upstream_Parent(self)]

\* A variant of push that does not pass the frame upstream.
Pipeline_push_local(self, input) ==
    LET k == KWeightFilter_process(self.k_filter, input)
        filtered_frame == k.output
    IN  [self EXCEPT
            !.k_filter = k.self,
            !.momentary_gl =
                IF self.momentary_gl.some
                THEN Some(GatedLoudness_push(self.momentary_gl.val, filtered_frame))
                ELSE None,
            !.shortterm_gl =
                IF self.shortterm_gl.some
                THEN Some(GatedLoudness_push(self.shortterm_gl.val, filtered_frame))
                ELSE None,
            !.custom_gl_map =
                [g \in DOMAIN self.custom_gl_map |->
                    GatedLoudness_push(self.custom_gl_map[g], filtered_frame)]]

RECURSIVE Pipeline_push(_, _)
Pipeline_push(self, input) ==
    LET k == KWeightFilter_process(self.k_filter, input)
        filtered_frame == k.output
    IN  [k_filter |-> k.self,
         momentary_gl |->
            IF self.momentary_gl.some
            THEN Some(GatedLoudness_push(self.momentary_gl.val, filtered_frame))
            ELSE None,
         shortterm_gl |->
            IF self.shortterm_gl.some
            THEN Some(GatedLoudness_push(self.shortterm_gl.val, filtered_frame))
            ELSE None,
         custom_gl_map |->
            [g \in DOMAIN self.custom_gl_map |->
                GatedLoudness_push(self.custom_gl_map[g], filtered_frame)],
         \* Upstream::push, lines 43-48
         upstream |->
            IF self.upstream.kind = "Parent"
            THEN Upstream_Parent(Pipeline_push(self.upstream.parent, input))
            ELSE self.upstream]

Pipeline_calculate(self) ==
    [output |->
        [momentary_mean |->
            IF self.momentary_gl.some
            THEN GatedLoudness_calculate(self.momentary_gl.val) ELSE None,
         shortterm_mean |->
            IF self.shortterm_gl.some
            THEN GatedLoudness_calculate(self.shortterm_gl.val) ELSE None,
         custom_gating_means |->
            [gating \in DOMAIN self.custom_gl_map |->
                GatedLoudness_calculate(self.custom_gl_map[gating])]],
     parent |-> Upstream_into_parent(self.upstream)]

\* The number of pipelines in the chain that ends in self.
RECURSIVE Pipeline_depth(_)
Pipeline_depth(self) ==
    IF self.upstream.kind = "Parent" THEN 1 + Pipeline_depth(self.upstream.parent) ELSE 1

(***************************************************************************)
(* PipelineBuilder.                                                        *)
(***************************************************************************)
PipelineBuilder_new(sample_rate, g_weights) ==
    [sample_rate |-> sample_rate,
     g_weights |-> g_weights,
     calc_momentary |-> FALSE,
     calc_shortterm |-> FALSE,
     custom_gatings |-> {}]

PipelineBuilder_momentary(self) == [self EXCEPT !.calc_momentary = TRUE]

PipelineBuilder_shortterm(self) == [self EXCEPT !.calc_shortterm = TRUE]

PipelineBuilder_custom(self, gate_len_ms, delta_len_ms) ==
    [self EXCEPT !.custom_gatings =
        @ \cup {[gate_len_ms |-> gate_len_ms, delta_len_ms |-> delta_len_ms]}]

\* build panics where a GatedLoudness constructor it calls panics.
PipelineBuilder_build_panics(self) ==
    \/ self.calc_momentary /\ GatedPowers_custom_panics(MOMENTARY_GATING, self.sample_rate)
    \/ self.calc_shortterm /\ GatedPowers_custom_panics(SHORTTERM_GATING, self.sample_rate)
    \/ \E g \in self.custom_gatings : GatedPowers_custom_panics(g, self.sample_rate)

\* build(&mut self): the pipeline built, and the builder as build leaves it.
PipelineBuilder_build(self) ==
    [self |-> [self EXCEPT !.custom_gatings = {}],
     pipeline |->
        [upstream |-> Upstream_Source([sample_rate |-> self.sample_rate,
                                       g_weights |-> self.g_weights]),
         k_filter |-> KWeightFilter_new(self.sample_rate),
         momentary_gl |->
            IF self.calc_momentary
            THEN Some(GatedLoudness_momentary(self.sample_rate, self.g_weights)) ELSE None,
         shortterm_gl |->
            IF self.calc_shortterm
            THEN Some(GatedLoudness_shortterm(self.sample_rate, self.g_weights)) ELSE None,
         custom_gl_map |->
            [g \in self.custom_gatings |->
                GatedLoudness_new(self.sample_rate, self.g_weights, g)]]]

(***************************************************************************)
(* SpecAlbum: two tracks streamed through a root layer, with a child layer *)
(* opened before and finalized after each track, and the root finalized at *)
(* the end.  The same calls are made on a LayeredPipeline (push_layer,     *)
(* push_frame, pop_layer) and on a Pipeline chain (build, spawn_child,     *)
(* push, calculate).                                                       *)
(***************************************************************************)
coreVars == <<gateVars, gmsiVars, loudVars, pipeVars>>
CoreIdle == GateIdle /\ GmsiIdle /\ LoudIdle /\ PipeIdle

AlbumTracks == <<"A", "B">>

AlbumInit ==
    /\ \E sample_rate \in PipeSampleRates, g_weights \in PipeWeights,
          calc_momentary \in BOOLEAN, calc_shortterm \in BOOLEAN,
          custom_gatings \in SUBSET PipeCustomGatings :
          LET builder == [sample_rate |-> sample_rate,
                          g_weights |-> g_weights,
                          calc_momentary |-> calc_momentary,
                          calc_shortterm |-> calc_shortterm,
                          custom_gatings |-> custom_gatings]
              layered == [sample_rate |-> sample_rate,
                          g_weights |-> g_weights,
                          calc_momentary |-> calc_momentary,
                          calc_shortterm |-> calc_shortterm,
                          custom_gatings |-> custom_gatings,
                          layers |-> <<>>]
          IN  album = [pipe |-> push_layer(layered),
                       chain |-> PipelineBuilder_build(builder).pipeline,
                       tracks |-> <<>>,
                       open |-> FALSE,
                       outs |-> <<>>,
                       final |-> [called |-> FALSE]]
    /\ CoreIdle
    /\ LateIdle
    /\ build = "unused" /\ twin = "unused" /\ rst = "unused"
    /\ peak = "unused" /\ filt = "unused" /\ stats = "unused"

notAlbumVars == <<coreVars, build, twin, rst, peak, filt, stats, lateVars>>

AlbumStartTrack ==
    /\ ~album.final.called
    /\ ~album.open
    /\ Len(album.tracks) < Len(AlbumTracks)
    /\ album' = [album EXCEPT
                    !.pipe = push_layer(album.pipe),
                    !.chain = Pipeline_spawn_child(album.chain),
                    !.tracks = Append(album.tracks, <<>>),
                    !.open = TRUE]
    /\ UNCHANGED notAlbumVars

AlbumPushFrame(frame) ==
    /\ album.open
    /\ Len(album.tracks[Len(album.tracks)]) < MaxTrackFrames
    /\ album' = [album EXCEPT
                    !.pipe = push_frame(album.pipe, frame),
                    !.chain = Pipeline_push(album.chain, frame),
                    !.tracks[Len(album.tracks)] = Append(@, frame)]
    /\ UNCHANGED notAlbumVars

AlbumEndTrack ==
    /\ album.open
    /\ LET popped == pop_layer(album.pipe)
           calc == Pipeline_calculate(album.chain)
       IN  album' = [album EXCEPT
                       !.pipe = popped.self,
                       !.chain = calc.parent.val,
                       !.outs = Append(album.outs,
                                       [layered |-> popped.out, chain |-> calc.output]),
                       !.open = FALSE]
    /\ UNCHANGED notAlbumVars

AlbumFinish ==
    /\ ~album.final.called
    /\ ~album.open
    /\ Len(album.tracks) = Len(AlbumTracks)
    /\ LET popped == pop_layer(album.pipe)
           calc == Pipeline_calculate(album.chain)
       IN  album' = [album EXCEPT
                       !.pipe = popped.self,
                       !.chain = calc.parent,
                       !.final = [called |-> TRUE,
                                  layered |-> popped.out,
                                  chain |-> calc.output]]
    /\ UNCHANGED notAlbumVars

AlbumNext ==
    \/ AlbumStartTrack
    \/ \E frame \in InputFrames : AlbumPushFrame(frame)
    \/ AlbumEndTrack
    \/ AlbumFinish

SpecAlbum == AlbumInit /\ [][AlbumNext]_vars

RECURSIVE Flatten(_)
Flatten(seqs) == IF seqs = <<>> THEN <<>> ELSE Head(seqs) \o Flatten(Tail(seqs))

\* C11: the root layer's result after tracks A and B, each under its own
\* child layer, is that of one layer fed A then B with no child layers: the
\* loudness of the combined retained frames, on the layer stack and on the
\* pipeline chain alike.
C11_AlbumIsCombinedStream ==
    album.final.called =>
        LET single == PipelineLayer_calculate(Replay(album.pipe, Flatten(album.tracks)))
        IN  /\ album.final.layered = Some(single)
            /\ album.final.chain = single

\* Both tracks and the album have a momentary loudness, and the album's is
\* not the arithmetic mean of the two tracks'.
C11_Witness ==
    /\ album.final.called
    /\ album.final.layered.some
    /\ album.final.chain.momentary_mean.some
    /\ album.outs[1].chain.momentary_mean.some
    /\ album.outs[2].chain.momentary_mean.some
    /\ album.outs[1].chain.momentary_mean # album.outs[2].chain.momentary_mean
    /\ 2 * album.final.chain.momentary_mean.val #
         album.outs[1].chain.momentary_mean.val + album.outs[2].chain.momentary_mean.val
    /\ album.final.layered.val = album.final.chain

\* A layer in its initial state: filter accumulators zero, windows empty and
\* filling, counters as constructed, nothing retained.
FreshGatedLoudness(gl) ==
    /\ gl.gated_powers.ms_state.buf = <<>>
    /\ gl.gated_powers.i = USIZE_MAX
    /\ gl.loudness.abs_loud_frames = <<>>
    /\ gl.loudness.abs_averager.count = 0

FreshLayer(layer) ==
    /\ \A c \in Channels :
          /\ layer.k_filter.pass_a.s1[c] = 0 /\ layer.k_filter.pass_a.s2[c] = 0
          /\ layer.k_filter.pass_b.s1[c] = 0 /\ layer.k_filter.pass_b.s2[c] = 0
    /\ \A g \in Registered(layer) : FreshGatedLoudness(GlOf(layer, g))

\* The result of a pipeline built on its own with the same configuration and
\* pushed only the given frames.
RECURSIVE PushAll(_, _)
PushAll(pipeline, frames) ==
    IF frames = <<>> THEN pipeline
    ELSE PushAll(Pipeline_push(pipeline, Head(frames)), Tail(frames))

StandaloneResult(config, frames) ==
    LET builder == [sample_rate |-> config.sample_rate,
                    g_weights |-> config.g_weights,
                    calc_momentary |-> config.calc_momentary,
                    calc_shortterm |-> config.calc_shortterm,
                    custom_gatings |-> config.custom_gatings]
    IN  Pipeline_calculate(PushAll(PipelineBuilder_build(builder).pipeline, frames)).output

\* C12: a layer opened by push_layer or spawn_child is fresh whatever was
\* streamed before, and the result of finalizing it is that of a standalone
\* layer fed only the frames pushed while it was open.
C12_NewLayerIsFresh ==
    /\ (album.open /\ album.tracks[Len(album.tracks)] = <<>>) =>
          /\ FreshLayer(album.pipe.layers[Len(album.pipe.layers)])
          /\ FreshLayer(album.chain)
    /\ \A k \in 1..Len(album.outs) :
          LET alone == StandaloneResult(album.pipe, album.tracks[k])
          IN  /\ album.outs[k].layered = Some(alone)
              /\ album.outs[k].chain = alone

\* The second track's layer was opened after the root had retained frames of
\* the first track, and was finalized with a loudness of its own.
C12_Witness ==
    /\ Len(album.outs) = 2
    /\ album.outs[2].chain.momentary_mean.some
    /\ album.outs[1].chain.momentary_mean.some
    /\ album.outs[1].chain # album.outs[2].chain
    /\ album.tracks[1] # album.tracks[2]
    /\ ~album.final.called
    /\ Pipeline_calculate(album.chain).output # album.outs[2].chain

(***************************************************************************)
(* SpecBuild: a PipelineBuilder configured by any calls of momentary,      *)
(* shortterm and custom, then built, and the Pipeline it returns used by   *)
(* any calls of push, spawn_child and calculate.  The sample rates and the *)
(* custom gatings include the ones a configuration must not have: rate 0,  *)
(* a zero delta, a zero gate, a gate that is no multiple of the delta.     *)
(***************************************************************************)
BuildSampleRates == {0, 5}
BuildCustomArgs == {<<400, 200>>, <<600, 400>>, <<400, 0>>, <<0, 200>>}

\* The windowers of a pipeline and of its parents.
RECURSIVE Windowers(_)
Windowers(pipeline) ==
    {GlOf(pipeline, g).gated_powers : g \in Registered(pipeline)}
    \cup (IF pipeline.upstream.kind = "Parent" THEN Windowers(pipeline.upstream.parent) ELSE {})

\* A window of no frames is outside what the moving mean of squares is
\* described for, and at sample rate 0 the filter coefficients are NaN:
\* frames are pushed only to pipelines with neither.
Pushable(pipeline) ==
    /\ Upstream_config(pipeline.upstream).sample_rate > 0
    /\ \A w \in Windowers(pipeline) : gate_frames(w) > 0

notBuildVars == <<coreVars, album, twin, rst, peak, filt, stats, lateVars>>

BuildInit ==
    /\ \E sample_rate \in BuildSampleRates, g_weights \in PipeWeights :
          build = [builder |-> PipelineBuilder_new(sample_rate, g_weights),
                   at_build |-> None,
                   outcome |-> "none",
                   pipeline |-> None,
                   ops |-> <<>>,
                   last |-> None]
    /\ CoreIdle
    /\ LateIdle
    /\ album = "unused" /\ twin = "unused" /\ rst = "unused"
    /\ peak = "unused" /\ filt = "unused" /\ stats = "unused"

BuildMomentary ==
    /\ build.outcome = "none"
    /\ build' = [build EXCEPT !.builder = PipelineBuilder_momentary(build.builder)]
    /\ UNCHANGED notBuildVars

BuildShortterm ==
    /\ build.outcome = "none"
    /\ build' = [build EXCEPT !.builder = PipelineBuilder_shortterm(build.builder)]
    /\ UNCHANGED notBuildVars

BuildCustom(gate_len_ms, delta_len_ms) ==
    /\ build.outcome = "none"
    /\ build' = [build EXCEPT
                    !.builder = PipelineBuilder_custom(build.builder, gate_len_ms, delta_len_ms)]
    /\ UNCHANGED notBuildVars

BuildBuild ==
    /\ build.outcome = "none"
    /\ IF PipelineBuilder_build_panics(build.builder)
       THEN build' = [build EXCEPT !.at_build = Some(build.builder), !.outcome = "panic"]
       ELSE build' = [build EXCEPT
                        !.at_build = Some(build.builder),
                        !.outcome = "built",
                        !.builder = PipelineBuilder_build(build.builder).self,
                        !.pipeline = Some(PipelineBuilder_build(build.builder).pipeline)]
    /\ UNCHANGED notBuildVars

BuildPush(frame) ==
    /\ build.pipeline.some
    /\ Pushable(build.pipeline.val)
    /\ Len(build.ops) < MaxBuildOps
    /\ build' = [build EXCEPT
                    !.pipeline = Some(Pipeline_push(build.pipeline.val, frame)),
                    !.ops = Append(build.ops, [op |-> "push", frame |-> frame])]
    /\ UNCHANGED notBuildVars

BuildSpawnChild ==
    /\ build.pipeline.some
    /\ Len(build.ops) < MaxBuildOps
    /\ build' = [build EXCEPT
                    !.pipeline = Some(Pipeline_spawn_child(build.pipeline.val)),
                    !.ops = Append(build.ops, [op |-> "spawn_child"])]
    /\ UNCHANGED notBuildVars

\* calculate(self) consumes the pipeline and hands back its parent, if any.
BuildCalculate ==
    /\ build.pipeline.some
    /\ Len(build.ops) < MaxBuildOps
    /\ LET calc == Pipeline_calculate(build.pipeline.val)
       IN  build' = [build EXCEPT
                       !.pipeline = calc.parent,
                       !.last = Some(calc.output),
                       !.ops = Append(build.ops, [op |-> "calculate"])]
    /\ UNCHANGED notBuildVars

BuildNext ==
    \/ BuildMomentary
    \/ BuildShortterm
    \/ \E args \in BuildCustomArgs : BuildCustom(args[1], args[2])
    \/ BuildBuild
    \/ \E frame \in InputFrames : BuildPush(frame)
    \/ BuildSpawnChild
    \/ BuildCalculate

SpecBuild == BuildInit /\ [][BuildNext]_vars

\* What the configuration rules ask of a builder.
ValidGating(g) == g.delta_len_ms > 0 /\ g.gate_len_ms > 0 /\ g.gate_len_ms % g.delta_len_ms = 0

ValidConfiguration(builder) ==
    /\ builder.sample_rate > 0
    /\ builder.calc_momentary \/ builder.calc_shortterm \/ builder.custom_gatings # {}
    /\ \A g \in builder.custom_gatings : ValidGating(g)

\* C13: build produces a pipeline only from a valid configuration (sample
\* rate above 0, a measurement registered, every gating with a positive
\* delta that divides its gate), and no windower is ever constructed with
\* gate_frames = 0 or delta_frames = 0.
C13_InvalidConfigurationRejected ==
    build.outcome = "built" =>
        /\ ValidConfiguration(build.at_build.val)
        /\ build.pipeline.some =>
              \A w \in Windowers(build.pipeline.val) : gate_frames(w) > 0 /\ delta_frames(w) > 0

OnlyPushes(ops) == \A i \in 1..Len(ops) : ops[i].op = "push"

\* C14: the pipeline that build returns holds no layer: frames pushed before
\* any layer is opened are not measured and leave it as built, and a
\* finalization right after build finds no layer and gives no output.
C14_BuiltPipelineHasNoLayer ==
    build.outcome = "built" =>
        /\ (build.pipeline.some /\ OnlyPushes(build.ops)) =>
              build.pipeline.val = PipelineBuilder_build(build.at_build.val).pipeline
        /\ (Len(build.ops) = 1 /\ build.ops[1].op = "calculate") => build.last = None

\* The gatings a configuration registers, by name.
RegisteredIn(config) ==
    (IF config.calc_momentary THEN {[kind |-> "momentary"]} ELSE {})
    \cup (IF config.calc_shortterm THEN {[kind |-> "shortterm"]} ELSE {})
    \cup {[kind |-> "custom", gating |-> g] : g \in config.custom_gatings}

\* The pipelines of a chain: the pipeline and its parents.
RECURSIVE ChainLayers(_)
ChainLayers(pipeline) ==
    {pipeline} \cup (IF pipeline.upstream.kind = "Parent"
                     THEN ChainLayers(pipeline.upstream.parent) ELSE {})

\* The gatings an output has an entry for.
EntriesOf(config, out) ==
    (IF config.calc_momentary \/ out.momentary_mean.some THEN {[kind |-> "momentary"]} ELSE {})
    \cup (IF config.calc_shortterm \/ out.shortterm_mean.some THEN {[kind |-> "shortterm"]} ELSE {})
    \cup {[kind |-> "custom", gating |-> g] : g \in DOMAIN out.custom_gating_means}

\* C15: every layer, at any depth, measures exactly the gatings registered
\* in the configuration, and every output of a finalization has an entry for
\* each registered gating and for no other.
C15_LayersMeasureRegisteredGatings ==
    LET config == album.pipe
        outputs == {album.outs[k].chain : k \in 1..Len(album.outs)}
                   \cup {album.outs[k].layered.val : k \in 1..Len(album.outs)}
                   \cup (IF album.final.called
                         THEN {album.final.chain, album.final.layered.val} ELSE {})
    IN  /\ \A k \in 1..Len(album.pipe.layers) :
              Registered(album.pipe.layers[k]) = RegisteredIn(config)
        /\ ~album.final.called =>
              \A layer \in ChainLayers(album.chain) : Registered(layer) = RegisteredIn(config)
        /\ \A k \in 1..Len(album.outs) : album.outs[k].layered.some
        /\ album.final.called => album.final.layered.some
        /\ \A out \in outputs : EntriesOf(config, out) = RegisteredIn(config)

\* With the momentary and a custom gating registered and the short-term one
\* not, a child layer is open above the root, and earlier outputs exist.
C15_Witness ==
    /\ album.pipe.calc_momentary /\ ~album.pipe.calc_shortterm
    /\ album.pipe.custom_gatings # {}
    /\ album.open
    /\ Len(album.pipe.layers) = 2
    /\ Len(album.outs) = 1
    /\ album.outs[1].chain.momentary_mean.some
    /\ DOMAIN album.outs[1].chain.custom_gating_means = album.pipe.custom_gatings

(***************************************************************************)
(* The per-gating map is a HashMap: a loop over it visits the custom       *)
(* gatings in an order the program does not control.  The operations below *)
(* are PipelineLayer::push and PipelineLayer::calculate with that order    *)
(* made explicit.                                                          *)
(***************************************************************************)
Orders(S) ==
    {o \in [1..Cardinality(S) -> S] : \A i, j \in 1..Cardinality(S) : o[i] = o[j] => i = j}

\* for gated_loudness in self.custom_gl_map.values_mut() { push }
RECURSIVE values_mut_push(_, _, _)
values_mut_push(custom_gl_map, order, filtered_frame) ==
    IF order = <<>> THEN custom_gl_map
    ELSE values_mut_push(
            [custom_gl_map EXCEPT ![Head(order)] = GatedLoudness_push(@, filtered_frame)],
            Tail(order), filtered_frame)

PipelineLayer_push_iter(self, input, order) ==
    LET k == KWeightFilter_process(self.k_filter, input)
        filtered_frame == k.output
    IN  [k_filter |-> k.self,
         momentary_gl |->
            IF self.momentary_gl.some
            THEN Some(GatedLoudness_push(self.momentary_gl.val, filtered_frame))
            ELSE None,
         shortterm_gl |->
            IF self.shortterm_gl.some
            THEN Some(GatedLoudness_push(self.shortterm_gl.val, filtered_frame))
            ELSE None,
         custom_gl_map |-> values_mut_push(self.custom_gl_map, order, filtered_frame)]

\* A variant of the collection that keeps the pairs as a list, in the order visited.
into_iter_collect_list(custom_gl_map, order) ==
    [i \in 1..Len(order) |-> <<order[i], GatedLoudness_calculate(custom_gl_map[order[i]])>>]

\* self.custom_gl_map.into_iter().map(..).collect() into a HashMap
RECURSIVE into_iter_collect(_, _)
into_iter_collect(custom_gl_map, order) ==
    IF order = <<>> THEN [g \in {} |-> None]
    ELSE (Head(order) :> GatedLoudness_calculate(custom_gl_map[Head(order)]))
         @@ into_iter_collect(custom_gl_map, Tail(order))

PipelineLayer_calculate_iter(self, order) ==
    [momentary_mean |->
        IF self.momentary_gl.some THEN GatedLoudness_calculate(self.momentary_gl.val) ELSE None,
     shortterm_mean |->
        IF self.shortterm_gl.some THEN GatedLoudness_calculate(self.shortterm_gl.val) ELSE None,
     custom_gating_means |-> into_iter_collect(self.custom_gl_map, order)]

push_frame_iter(self, frame, order) ==
    [self EXCEPT !.layers =
        [k \in 1..Len(self.layers) |-> PipelineLayer_push_iter(self.layers[k], frame, order)]]

pop_layer_iter(self, order) ==
    IF self.layers = <<>>
    THEN [self |-> self, out |-> None]
    ELSE [self |-> [self EXCEPT !.layers = SubSeq(self.layers, 1, Len(self.layers) - 1)],
          out |-> Some(PipelineLayer_calculate_iter(self.layers[Len(self.layers)], order))]

(***************************************************************************)
(* SpecTwin: two pipelines of one configuration given the same calls, each *)
(* visiting its maps in an order of its own at every call.                 *)
(***************************************************************************)
TwinCustomGatings == {[gate_len_ms |-> 600, delta_len_ms |-> 400],
                      [gate_len_ms |-> 400, delta_len_ms |-> 200]}

notTwinVars == <<coreVars, album, build, rst, peak, filt, stats, lateVars>>

TwinInit ==
    /\ \E sample_rate \in PipeSampleRates, g_weights \in PipeWeights,
          calc_momentary \in BOOLEAN, calc_shortterm \in BOOLEAN :
          LET fresh == [sample_rate |-> sample_rate,
                        g_weights |-> g_weights,
                        calc_momentary |-> calc_momentary,
                        calc_shortterm |-> calc_shortterm,
                        custom_gatings |-> TwinCustomGatings,
                        layers |-> <<>>]
          IN  twin = [a |-> fresh, b |-> fresh,
                      calls |-> 0,
                      differed |-> FALSE,
                      out_a |-> <<>>, out_b |-> <<>>]
    /\ CoreIdle
    /\ LateIdle
    /\ album = "unused" /\ build = "unused" /\ rst = "unused"
    /\ peak = "unused" /\ filt = "unused" /\ stats = "unused"

TwinPushLayer ==
    /\ twin.calls < MaxTwinCalls
    /\ Len(twin.a.layers) < MaxDepth
    /\ twin' = [twin EXCEPT
                   !.a = push_layer(twin.a),
                   !.b = push_layer(twin.b),
                   !.calls = @ + 1]
    /\ UNCHANGED notTwinVars

TwinPushFrame(frame, order_a, order_b) ==
    /\ twin.calls < MaxTwinCalls
    /\ twin' = [twin EXCEPT
                   !.a = push_frame_iter(twin.a, frame, order_a),
                   !.b = push_frame_iter(twin.b, frame, order_b),
                   !.differed = @ \/ (order_a # order_b /\ twin.a.layers # <<>>),
                   !.calls = @ + 1]
    /\ UNCHANGED notTwinVars

TwinPopLayer(order_a, order_b) ==
    /\ twin.calls < MaxTwinCalls
    /\ twin' = [twin EXCEPT
                   !.a = pop_layer_iter(twin.a, order_a).self,
                   !.b = pop_layer_iter(twin.b, order_b).self,
                   !.out_a = Append(@, pop_layer_iter(twin.a, order_a).out),
                   !.out_b = Append(@, pop_layer_iter(twin.b, order_b).out),
                   !.differed = @ \/ (order_a # order_b /\ twin.a.layers # <<>>),
                   !.calls = @ + 1]
    /\ UNCHANGED notTwinVars

TwinNext ==
    \/ TwinPushLayer
    \/ \E frame \in InputFrames, order_a, order_b \in Orders(TwinCustomGatings) :
          TwinPushFrame(frame, order_a, order_b)
    \/ \E order_a, order_b \in Orders(TwinCustomGatings) : TwinPopLayer(order_a, order_b)

SpecTwin == TwinInit /\ [][TwinNext]_vars

\* C16: two fresh pipelines of the same configuration, given the same frames
\* and layer operations, hold the same state and have returned the same
\* outputs for every gating, whatever order each visited its maps in.
C16_TwinsAgree ==
    /\ twin.a = twin.b
    /\ twin.out_a = twin.out_b

\* The twins visited their maps in different orders, and a finalization
\* returned a loudness for both custom gatings.
C16_Witness ==
    /\ twin.differed
    /\ twin.out_a # <<>>
    /\ \E k \in 1..Len(twin.out_a) :
          /\ twin.out_a[k].some
          /\ \A g \in TwinCustomGatings : twin.out_a[k].val.custom_gating_means[g].some
          /\ \E g1, g2 \in TwinCustomGatings :
                twin.out_a[k].val.custom_gating_means[g1] #
                twin.out_a[k].val.custom_gating_means[g2]

(***************************************************************************)
(* reset.  Loudness::reset and GatedLoudness::reset are the program's.     *)
(* GatedPowers has no reset of its own in the program text, and neither    *)
(* the filter nor the layer has one: those three follow the description,   *)
(* a return to the constructed state.                                      *)
(***************************************************************************)
GatedPowers_reset(self) ==
    [ms_state |-> BufferedMovingMs_from(self.ms_state.cap),
     i |-> USIZE_MAX,
     delta |-> self.delta]

\* A variant of reset that clears the running mean and keeps the saved frames.
Loudness_reset_keeps_frames(self) ==
    [self EXCEPT !.abs_averager = CumulativeMean_default]

Loudness_reset(self) == Loudness_new(self.g_weights)

GatedLoudness_reset(self) ==
    [gated_powers |-> GatedPowers_reset(self.gated_powers),
     loudness |-> Loudness_reset(self.loudness)]

KWeightFilter_reset(self) ==
    [self EXCEPT
        !.pass_a.s1 = [c \in Channels |-> 0], !.pass_a.s2 = [c \in Channels |-> 0],
        !.pass_b.s1 = [c \in Channels |-> 0], !.pass_b.s2 = [c \in Channels |-> 0]]

PipelineLayer_reset(self) ==
    [k_filter |-> KWeightFilter_reset(self.k_filter),
     momentary_gl |->
        IF self.momentary_gl.some THEN Some(GatedLoudness_reset(self.momentary_gl.val)) ELSE None,
     shortterm_gl |->
        IF self.shortterm_gl.some THEN Some(GatedLoudness_reset(self.shortterm_gl.val)) ELSE None,
     custom_gl_map |->
        [g \in DOMAIN self.custom_gl_map |-> GatedLoudness_reset(self.custom_gl_map[g])]]

(***************************************************************************)
(* SpecReset: one layer, pushed frames and reset in any order.             *)
(***************************************************************************)
notResetVars == <<coreVars, album, build, twin, peak, filt, stats, lateVars>>

ResetInit ==
    /\ \E sample_rate \in PipeSampleRates, g_weights \in PipeWeights,
          calc_momentary \in BOOLEAN, calc_shortterm \in BOOLEAN,
          custom_gatings \in SUBSET PipeCustomGatings :
          LET config == [sample_rate |-> sample_rate,
                         g_weights |-> g_weights,
                         calc_momentary |-> calc_momentary,
                         calc_shortterm |-> calc_shortterm,
                         custom_gatings |-> custom_gatings,
                         layers |-> <<>>]
          IN  rst = [config |-> config,
                     layer |-> new_layer(config),
                     before |-> <<>>,
                     since |-> <<>>,
                     resets |-> 0,
                     calls |-> 0]
    /\ CoreIdle
    /\ LateIdle
    /\ album = "unused" /\ build = "unused" /\ twin = "unused"
    /\ peak = "unused" /\ filt = "unused" /\ stats = "unused"

ResetPush(frame) ==
    /\ rst.calls < MaxResetCalls
    /\ rst' = [rst EXCEPT
                  !.layer = PipelineLayer_push(rst.layer, frame),
                  !.since = Append(@, frame),
                  !.calls = @ + 1]
    /\ UNCHANGED notResetVars

ResetReset ==
    /\ rst.calls < MaxResetCalls
    /\ rst' = [rst EXCEPT
                  !.layer = PipelineLayer_reset(rst.layer),
                  !.before = rst.since,
                  !.since = <<>>,
                  !.resets = @ + 1,
                  !.calls = @ + 1]
    /\ UNCHANGED notResetVars

ResetNext ==
    \/ \E frame \in InputFrames : ResetPush(frame)
    \/ ResetReset

SpecReset == ResetInit /\ [][ResetNext]_vars

f64_abs(x) == IF x < 0 THEN 0 - x ELSE x

f64_max(a, b) == IF a >= b THEN a ELSE b

SamplePeakIter_new ==
    [peak_per_channel |-> [ch \in Channels |-> 0]]

\* A variant of next that compares the signed sample.
SamplePeakIter_next_signed(self, item) ==
    IF ~item.some
    THEN [self |-> self, out |-> None]
    ELSE [self |-> [peak_per_channel |->
                      [ch \in Channels |->
                         f64_max(self.peak_per_channel[ch], item.val[ch])]],
          out |-> Some(item.val)]

\* item is what sample_iter.next() returned.
SamplePeakIter_next(self, item) ==
    IF ~item.some
    THEN [self |-> self, out |-> None]
    ELSE [self |-> [peak_per_channel |->
                      [ch \in Channels |->
                         f64_max(self.peak_per_channel[ch], f64_abs(item.val[ch]))]],
          out |-> Some(item.val)]

(***************************************************************************)
(* SpecPeak: frames pulled through a SamplePeakIter, with samples inside   *)
(* and outside full scale; the source may also report its end.             *)
(***************************************************************************)
PeakSamples == {0 - 12000, 0, 5000}

PeakFrames == [Channels -> PeakSamples]

notPeakVars == <<coreVars, album, build, twin, rst, filt, stats, lateVars>>

PeakInit ==
    /\ peak = [it |-> SamplePeakIter_new,
               prev |-> SamplePeakIter_new.peak_per_channel,
               source |-> <<>>,
               produced |-> <<>>,
               calls |-> 0]
    /\ CoreIdle
    /\ LateIdle
    /\ album = "unused" /\ build = "unused" /\ twin = "unused"
    /\ rst = "unused" /\ filt = "unused" /\ stats = "unused"

PeakPull(item) ==
    /\ peak.calls < MaxPeakCalls
    /\ LET r == SamplePeakIter_next(peak.it, item)
       IN  peak' = [it |-> r.self,
                    prev |-> peak.it.peak_per_channel,
                    source |-> Append(peak.source, item),
                    produced |-> Append(peak.produced, r.out),
                    calls |-> peak.calls + 1]
    /\ UNCHANGED notPeakVars

PeakNextSome == \E frame \in PeakFrames : PeakPull(Some(frame))

PeakNextNone == PeakPull(None)

PeakNext == PeakNextSome \/ PeakNextNone

SpecPeak == PeakInit /\ [][PeakNext]_vars

RECURSIVE MaxAbs(_, _)
MaxAbs(items, ch) ==
    IF items = <<>> THEN 0
    ELSE LET rest == MaxAbs(SubSeq(items, 1, Len(items) - 1), ch)
             last == items[Len(items)]
         IN  IF ~last.some THEN rest
             ELSE IF f64_abs(last.val[ch]) > rest THEN f64_abs(last.val[ch]) ELSE rest

\* C18: the sample peak of a channel starts at 0, equals the largest |x_c|
\* of the frames pulled so far (also above full scale), never decreases, and
\* each frame comes out as it went in, in order.
C18_SamplePeak ==
    /\ peak.calls = 0 => \A ch \in Channels : peak.it.peak_per_channel[ch] = 0
    /\ \A ch \in Channels :
          /\ peak.it.peak_per_channel[ch] = MaxAbs(peak.source, ch)
          /\ peak.it.peak_per_channel[ch] >= peak.prev[ch]
    /\ peak.produced = peak.source

\* A negative sample beyond full scale set the peak of a channel, and a
\* later smaller sample left it there.
C18_Witness ==
    /\ Len(peak.source) >= 2
    /\ \E ch \in Channels :
          /\ peak.source[1].some /\ peak.source[1].val[ch] = 0 - 12000
          /\ peak.source[2].some /\ peak.source[2].val[ch] = 5000
          /\ peak.it.peak_per_channel[ch] = 12000

(***************************************************************************)
(* SpecFilt: one Applicator of either kind, fed frames whose channels      *)
(* carry different signals.                                                *)
(***************************************************************************)
FiltKinds == {"A", "B"}

FiltSamples == {0 - 3000, 0, 5000}

FiltFrames == [Channels -> FiltSamples]

notFiltVars == <<coreVars, album, build, twin, rst, peak, stats, lateVars>>

FiltInit ==
    /\ \E kind \in FiltKinds, sample_rate \in PipeSampleRates :
          filt = [app |-> Applicator_new(kind, sample_rate),
                  inputs |-> <<>>,
                  outputs |-> <<>>]
    /\ CoreIdle
    /\ LateIdle
    /\ album = "unused" /\ build = "unused" /\ twin = "unused"
    /\ rst = "unused" /\ peak = "unused" /\ stats = "unused"

FiltApply(input) ==
    /\ Len(filt.inputs) < MaxFiltCalls
    /\ LET r == Applicator_apply(filt.app, input)
       IN  filt' = [app |-> r.self,
                    inputs |-> Append(filt.inputs, input),
                    outputs |-> Append(filt.outputs, r.output)]
    /\ UNCHANGED notFiltVars

FiltNext == \E input \in FiltFrames : FiltApply(input)

SpecFilt == FiltInit /\ [][FiltNext]_vars

\* The recurrence of one channel on its own: the accumulators and the last
\* output after the samples xs, from accumulators 0.
RECURSIVE ChannelRun(_, _)
ChannelRun(biquad, xs) ==
    IF xs = <<>> THEN [s1 |-> 0, s2 |-> 0, y |-> 0]
    ELSE LET st == ChannelRun(biquad, SubSeq(xs, 1, Len(xs) - 1))
             x == xs[Len(xs)]
             y == st.s1 + biquad.b0 * x
         IN  [s1 |-> st.s2 + biquad.b1 * x - biquad.a1 * y,
              s2 |-> biquad.b2 * x - biquad.a2 * y,
              y |-> y]

ChannelOf(frames, ch) == [i \in 1..Len(frames) |-> frames[i][ch]]

\* C19: each channel of the filter has its own accumulators, starting at 0
\* and updated by y = s1 + b0*x, s1' = s2 + b1*x - a1*y, s2' = b2*x - a2*y
\* from that channel's samples alone; a channel fed zeros keeps output 0 and
\* accumulators 0 whatever the other channels carry.
C19_ChannelsIndependent ==
    \A ch \in Channels :
        LET xs == ChannelOf(filt.inputs, ch)
            r == ChannelRun(filt.app.biquad, xs)
        IN  /\ filt.app.s1[ch] = r.s1
            /\ filt.app.s2[ch] = r.s2
            /\ filt.outputs # <<>> => filt.outputs[Len(filt.outputs)][ch] = r.y
            /\ filt.inputs = <<>> => (filt.app.s1[ch] = 0 /\ filt.app.s2[ch] = 0)
            /\ (\A i \in DOMAIN xs : xs[i] = 0) =>
                  /\ filt.app.s1[ch] = 0
                  /\ filt.app.s2[ch] = 0
                  /\ \A i \in DOMAIN filt.outputs : filt.outputs[i][ch] = 0

\* One channel was fed zeros while another carried a signal that left both
\* of its accumulators and its output non-zero.
C19_Witness ==
    /\ Len(filt.inputs) >= 2
    /\ \E quiet \in Channels, busy \in Channels :
          /\ \A i \in DOMAIN filt.inputs : filt.inputs[i][quiet] = 0
          /\ filt.app.s1[busy] # 0
          /\ filt.app.s2[busy] # 0
          /\ filt.outputs[Len(filt.outputs)][busy] # 0
          /\ filt.app.s1[quiet] = 0

(***************************************************************************)
(* stats.rs / bin.rs: the histogram statistics.  Powers are in units of    *)
(* SILENCE_GATE, the lower edge of the first bin; the histogram is cut     *)
(* down to HIST_NBINS bins one decade wide, so that the edges are the      *)
(* powers of ten.  An f64 is a finite rational, an infinity or NaN.        *)
(***************************************************************************)
F64(v) == [k |-> "fin", v |-> v]
F64_INFINITY == [k |-> "inf", v |-> RInt(1)]
F64_NEG_INFINITY == [k |-> "inf", v |-> RInt(0 - 1)]
F64_NAN == [k |-> "nan", v |-> RInt(0)]

f64_neg(a) ==
    IF a.k = "nan" THEN a ELSE [a EXCEPT !.v = RSub(RInt(0), a.v)]

f64_add(a, b) ==
    IF a.k = "nan" \/ b.k = "nan" THEN F64_NAN
    ELSE IF a.k = "fin" /\ b.k = "fin" THEN F64(RAdd(a.v, b.v))
    ELSE IF a.k = "inf" /\ b.k = "inf" THEN (IF a.v = b.v THEN a ELSE F64_NAN)
    ELSE IF a.k = "inf" THEN a
    ELSE b

f64_sub(a, b) == f64_add(a, f64_neg(b))

\* a / (n as f64), n an unsigned count.
f64_div_count(a, n) ==
    IF a.k = "nan" THEN F64_NAN
    ELSE IF a.k = "inf" THEN a
    ELSE IF n > 0 THEN F64(RDivInt(a.v, n))
    ELSE IF a.v[1] = 0 THEN F64_NAN
    ELSE IF a.v[1] > 0 THEN F64_INFINITY
    ELSE F64_NEG_INFINITY

HIST_NBINS == MaxBins

RECURSIVE BinEdge(_)
BinEdge(i) == IF i = 0 THEN 1 ELSE 10 * BinEdge(i - 1)

Bin_wmsq_cmp(self, wmsq) ==
    IF wmsq < self.x THEN "Less"
    ELSE IF self.y = 0 THEN "Equal"
    ELSE IF self.y <= wmsq THEN "Greater"
    ELSE "Equal"

Stats_default ==
    [max_wmsq |-> 1,
     wmsq |-> F64(RInt(0)),
     count |-> 0,
     bins |-> [i \in 0..(HIST_NBINS - 1) |->
                 [x |-> BinEdge(i),
                  y |-> IF i < HIST_NBINS - 1 THEN BinEdge(i + 1) ELSE 0,
                  count |-> 0]]]

Stats_add_sqs(self, wmsq) ==
    LET new_max_wmsq == IF self.max_wmsq >= wmsq THEN self.max_wmsq ELSE wmsq
        hits == {i \in DOMAIN self.bins : Bin_wmsq_cmp(self.bins[i], wmsq) = "Equal"}
    IN  IF hits # {}
        THEN LET i == CHOOSE h \in hits : \A o \in hits : h <= o
                 new_wmsq == f64_add(self.wmsq,
                                f64_div_count(f64_sub(F64(RInt(wmsq)), self.wmsq), self.count))
             IN  [max_wmsq |-> new_max_wmsq,
                  wmsq |-> new_wmsq,
                  count |-> self.count + 1,
                  bins |-> [self.bins EXCEPT ![i].count = @ + 1]]
        ELSE [self EXCEPT !.max_wmsq = new_max_wmsq]

(***************************************************************************)
(* SpecStats: powers added to a Stats one after another; 0 lies below the  *)
(* histogram, the others fall into its bins.                               *)
(***************************************************************************)
StatsPowers == {0, 5, 20, 300}

notStatsVars == <<coreVars, album, build, twin, rst, peak, filt, lateVars>>

StatsInit ==
    /\ stats = [s |-> Stats_default,
                prev |-> Stats_default,
                added |-> <<>>]
    /\ CoreIdle
    /\ LateIdle
    /\ album = "unused" /\ build = "unused" /\ twin = "unused"
    /\ rst = "unused" /\ peak = "unused" /\ filt = "unused"

StatsAddSqs(wmsq) ==
    /\ Len(stats.added) < MaxStatsCalls
    /\ stats' = [s |-> Stats_add_sqs(stats.s, wmsq),
                 prev |-> stats.s,
                 added |-> Append(stats.added, wmsq)]
    /\ UNCHANGED notStatsVars

StatsNext == \E wmsq \in StatsPowers : StatsAddSqs(wmsq)

SpecStats == StatsInit /\ [][StatsNext]_vars

\* C20: a value that is added to the running mean moves it to
\* mean + (x - mean)/new_count, new_count counting x; the first value added
\* to an empty accumulator becomes the mean.
C20_RunningMeanUpdate ==
    (stats.added # <<>> /\ stats.s.count = stats.prev.count + 1) =>
        LET x == RInt(stats.added[Len(stats.added)])
        IN  /\ stats.prev.wmsq.k = "fin" =>
                  stats.s.wmsq =
                    F64(RAdd(stats.prev.wmsq.v,
                             RDivInt(RSub(x, stats.prev.wmsq.v), stats.s.count)))
            /\ stats.s.count = 1 => stats.s.wmsq = F64(x)

(***************************************************************************)
(* Stats::merge.                                                           *)
(***************************************************************************)
\* q * a for a finite factor q >= 0 (a quotient of two counts).
f64_scale(q, a) ==
    IF a.k = "nan" THEN F64_NAN
    ELSE IF a.k = "inf" THEN (IF q[1] = 0 THEN F64_NAN ELSE a)
    ELSE F64(RMul(q, a.v))

\* A variant of merge that averages the two means without their counts.
Stats_merge_unweighted(self, other) ==
    [max_wmsq |-> IF self.max_wmsq >= other.max_wmsq THEN self.max_wmsq ELSE other.max_wmsq,
     wmsq |-> f64_div_count(f64_add(self.wmsq, other.wmsq), 2),
     count |-> self.count + other.count,
     bins |-> [i \in DOMAIN self.bins |->
                 [self.bins[i] EXCEPT !.count = @ + other.bins[i].count]]]

Stats_merge(self, other) ==
    LET new_max_wmsq ==
            IF self.max_wmsq >= other.max_wmsq THEN self.max_wmsq ELSE other.max_wmsq
        new_count == self.count + other.count
    IN  IF new_count > 0
        THEN LET q1 == Rat(self.count, new_count)
                 q2 == Rat(other.count, new_count)
             IN  [max_wmsq |-> new_max_wmsq,
                  wmsq |-> f64_add(f64_scale(q1, self.wmsq), f64_scale(q2, other.wmsq)),
                  count |-> new_count,
                  bins |-> [i \in DOMAIN self.bins |->
                              [self.bins[i] EXCEPT !.count = @ + other.bins[i].count]]]
        ELSE [max_wmsq |-> new_max_wmsq,
              wmsq |-> self.wmsq,
              count |-> new_count,
              bins |-> self.bins]

(***************************************************************************)
(* SpecMerge: two Stats, each grown by add_sqs, and merged.  The operands  *)
(* start empty or as a Stats holding the given powers with their finite    *)
(* mean, so that merge is applied to finite means as well as to the        *)
(* infinite and NaN means that add_sqs leaves.                             *)
(***************************************************************************)
RECURSIVE Stats_holding(_)
Stats_holding(powers) ==
    IF powers = <<>> THEN Stats_default
    ELSE LET before == Stats_holding(SubSeq(powers, 1, Len(powers) - 1))
             after == Stats_add_sqs(before, powers[Len(powers)])
         IN  [after EXCEPT !.wmsq = F64(Rat(SeqSum(powers), Len(powers)))]

MergeSeeds == {<<>>, <<5>>, <<20, 300>>}

notMergeVars == <<coreVars, album, build, twin, rst, peak, filt, stats>>

MergeInit ==
    /\ \E pa \in MergeSeeds, pb \in MergeSeeds :
          mrg = [a |-> Stats_holding(pa),
                 b |-> Stats_holding(pb),
                 merged |-> None,
                 calls |-> 0]
    /\ CoreIdle
    /\ album = "unused" /\ build = "unused" /\ twin = "unused" /\ rst = "unused"
    /\ peak = "unused" /\ filt = "unused" /\ stats = "unused"
    /\ LateIdleExcept("mrg")

MergeAddA(wmsq) ==
    /\ mrg.calls < MaxMergeCalls
    /\ mrg' = [mrg EXCEPT !.a = Stats_add_sqs(mrg.a, wmsq),
                          !.merged = None,
                          !.calls = @ + 1]
    /\ UNCHANGED notMergeVars
    /\ LateUnchangedExcept("mrg")

MergeAddB(wmsq) ==
    /\ mrg.calls < MaxMergeCalls
    /\ mrg' = [mrg EXCEPT !.b = Stats_add_sqs(mrg.b, wmsq),
                          !.merged = None,
                          !.calls = @ + 1]
    /\ UNCHANGED notMergeVars
    /\ LateUnchangedExcept("mrg")

\* a.merge(&b) and b.merge(&a), both kept; a then continues as the former.
MergeMerge ==
    /\ mrg.calls < MaxMergeCalls
    /\ mrg' = [mrg EXCEPT
                  !.merged = Some([self |-> mrg.a,
                                   other |-> mrg.b,
                                   ab |-> Stats_merge(mrg.a, mrg.b),
                                   ba |-> Stats_merge(mrg.b, mrg.a)]),
                  !.a = Stats_merge(mrg.a, mrg.b),
                  !.calls = @ + 1]
    /\ UNCHANGED notMergeVars
    /\ LateUnchangedExcept("mrg")

MergeNext ==
    \/ \E wmsq \in StatsPowers : MergeAddA(wmsq)
    \/ \E wmsq \in StatsPowers : MergeAddB(wmsq)
    \/ MergeMerge

SpecMerge == MergeInit /\ [][MergeNext]_vars

\* (n * mean1 + m * mean2) / (n + m), in the arithmetic of f64.
WeightedMean(n, mean1, m, mean2) ==
    f64_div_count(f64_add(f64_scale(RInt(n), mean1), f64_scale(RInt(m), mean2)), n + m)

\* C21: merging statistics of counts n and m gives count n + m and the mean
\* (n * mean1 + m * mean2) / (n + m); merging with a zero-count statistic on
\* either side gives the other operand unchanged; merge(a, b) = merge(b, a).
C21_MergeIsWeightedAndCommutes ==
    mrg.merged.some =>
        LET a == mrg.merged.val.self
            b == mrg.merged.val.other
            ab == mrg.merged.val.ab
            ba == mrg.merged.val.ba
        IN  /\ ab.count = a.count + b.count
            /\ ab.count > 0 => ab.wmsq = WeightedMean(a.count, a.wmsq, b.count, b.wmsq)
            /\ b.count = 0 => ab = a
            /\ a.count = 0 => ab = b
            /\ ab = ba

\* Two statistics with different counts and different finite means were
\* merged.
C21_Witness ==
    /\ mrg.merged.some
    /\ LET a == mrg.merged.val.self
           b == mrg.merged.val.other
       IN  /\ a.count > 0 /\ b.count > 0 /\ a.count # b.count
           /\ a.wmsq.k = "fin" /\ b.wmsq.k = "fin" /\ a.wmsq # b.wmsq
           /\ mrg.merged.val.ab.wmsq.k = "fin"

(***************************************************************************)
(* SpecMsq: one MeanSquare, given its samples in batches of any length,    *)
(* the empty batch included.                                               *)
(***************************************************************************)
MsqSamples == {0 - 3000, 5000}

MsqFrames == [Channels -> MsqSamples]

notMsqVars == <<coreVars, album, build, twin, rst, peak, filt, stats>>

MsqInit ==
    /\ msqs = [ms |-> MeanSquare_new,
               prev |-> MeanSquare_new,
               all |-> <<>>,
               batch |-> None,
               calls |-> 0]
    /\ CoreIdle
    /\ album = "unused" /\ build = "unused" /\ twin = "unused" /\ rst = "unused"
    /\ peak = "unused" /\ filt = "unused" /\ stats = "unused"
    /\ LateIdleExcept("msqs")

MsqAddSamples(samples) ==
    /\ msqs.calls < MaxMsqCalls
    /\ Len(msqs.all) + Len(samples) <= MaxMsqSamples
    /\ msqs' = [ms |-> MeanSquare_add_samples(msqs.ms, samples),
                prev |-> msqs.ms,
                all |-> msqs.all \o samples,
                batch |-> Some(samples),
                calls |-> msqs.calls + 1]
    /\ UNCHANGED notMsqVars
    /\ LateUnchangedExcept("msqs")

MsqNext ==
    \E samples \in SeqsUpTo(MsqFrames, MaxMsqSamples - Len(msqs.all)) :
        MsqAddSamples(samples)

SpecMsq == MsqInit /\ [][MsqNext]_vars

\* C22: a MeanSquare starts with count 0 and mean 0; after any batches its
\* count is the number of samples given and its mean is, per channel, the
\* mean of the squares of all of them, however they were split; an empty
\* batch changes nothing.
C22_MeanSquareOfAllSamples ==
    /\ msqs.calls = 0 => msqs.ms = [curr |-> [c \in Channels |-> RInt(0)], num |-> 0]
    /\ msqs.ms.num = Len(msqs.all)
    /\ \A c \in Channels :
          MeanSquare_mean_sqs(msqs.ms)[c] =
            IF msqs.all = <<>> THEN RInt(0)
            ELSE Rat(SeqSum([k \in 1..Len(msqs.all) |-> msqs.all[k][c] * msqs.all[k][c]]),
                     Len(msqs.all))
    /\ (msqs.batch.some /\ msqs.batch.val = <<>>) => msqs.ms = msqs.prev

\* After an empty batch and a batch of one sample, a batch of two samples
\* was folded into the running mean, with channels that differ.
C22_Witness ==
    /\ msqs.calls = 3
    /\ msqs.prev.num = 1
    /\ msqs.batch.some /\ Len(msqs.batch.val) = 2
    /\ msqs.ms.num = 3
    /\ msqs.ms.curr[1] # msqs.ms.curr[2]
    /\ msqs.ms.curr # msqs.prev.curr

(***************************************************************************)
(* SpecConv: Util::ms_to_samples called once on a pair of arguments.  The  *)
(* arguments include the pairs of the test in util.rs and sample rates     *)
(* that put the remainder just below, at and just above one half.          *)
(***************************************************************************)
ConvMs == (0..MaxMsArg) \cup {100, 400, 487, 489, 3000}

ConvSampleRates ==
    {0, 5, 15, 499, 500, 501, 1499, 1500, 12345, 44100, 44123, 44499, 44500, 44600}

notConvVars == <<coreVars, album, build, twin, rst, peak, filt, stats>>

ConvInit ==
    /\ \E ms \in ConvMs, sample_rate \in ConvSampleRates :
          conv = [ms |-> ms, sample_rate |-> sample_rate, out |-> None]
    /\ CoreIdle
    /\ album = "unused" /\ build = "unused" /\ twin = "unused" /\ rst = "unused"
    /\ peak = "unused" /\ filt = "unused" /\ stats = "unused"
    /\ LateIdleExcept("conv")

ConvCall ==
    /\ ~conv.out.some
    /\ conv' = [conv EXCEPT !.out = Some(ms_to_samples(conv.ms, conv.sample_rate))]
    /\ UNCHANGED notConvVars
    /\ LateUnchangedExcept("conv")

ConvNext == ConvCall

SpecConv == ConvInit /\ [][ConvNext]_vars

\* C23: ms_to_samples returns ms * sample_rate / 1000 rounded to the nearest
\* integer, an exact half going up: the result r satisfies
\* r - 1/2 <= ms * sample_rate / 1000 < r + 1/2, that is, r is the quotient
\* plus one when the remainder is 500 or more and the quotient otherwise.
C23_RoundsHalfUp ==
    conv.out.some =>
        LET num == conv.ms * conv.sample_rate
            r == conv.out.val
        IN  /\ 2 * 1000 * r - 1000 <= 2 * num
            /\ 2 * num < 2 * 1000 * r + 1000
            /\ num % 1000 >= 500 => r = (num \div 1000) + 1
            /\ num % 1000 <= 499 => r = num \div 1000

\* A product whose remainder is exactly one half was converted and went up.
C23_Witness ==
    /\ conv.out.some
    /\ (conv.ms * conv.sample_rate) % 1000 = 500
    /\ conv.ms * conv.sample_rate > 1000
    /\ conv.out.val = ((conv.ms * conv.sample_rate) \div 1000) + 1

(***************************************************************************)
(* SpecWindow: the two windowers, the push-based GatedPowers and the       *)
(* pull-based GatedMeanSquareIter.  A run constructs both, one of them in  *)
(* any way of the model and the other in a fixed way, and feeds the one    *)
(* it chose; the other stays as constructed.                               *)
(***************************************************************************)
IdleGatedPowers == GatedPowers_custom(MOMENTARY_GATING, 5)

IdleGatedPowersCtor == [kind |-> "momentary", gating |-> MOMENTARY_GATING, sample_rate |-> 5]

IdleGatedMeanSquareIter ==
    GatedMeanSquareIter_new([fused |-> TRUE, ended |-> FALSE], 5)

WindowInit ==
    /\ \/ /\ \E ctor \in GateCtors :
                /\ ~GatedPowers_custom_panics(ctor.gating, ctor.sample_rate)
                /\ ms_to_samples(ctor.gating.gate_len_ms, ctor.sample_rate) > 0
                /\ gp = GatedPowers_custom(ctor.gating, ctor.sample_rate)
                /\ gp_ctor = ctor
          /\ gmsi = IdleGatedMeanSquareIter
       \/ /\ gp = IdleGatedPowers
          /\ gp_ctor = IdleGatedPowersCtor
          /\ \E fused \in BOOLEAN, sample_rate \in GmsiSampleRates :
                gmsi = GatedMeanSquareIter_new([fused |-> fused, ended |-> FALSE],
                                               sample_rate)
    /\ gp_inputs = <<>>
    /\ gp_outputs = <<>>
    /\ gm_pulled = <<>>
    /\ gm_results = <<>>
    /\ gm_last = [kind |-> "start"]
    /\ LoudIdle
    /\ PipeIdle
    /\ ExtraIdle

WindowProcess ==
    /\ gmsi = IdleGatedMeanSquareIter
    /\ GateNext

WindowNextCall ==
    /\ gp = IdleGatedPowers
    /\ GmsiNext
    /\ Len(gm_pulled') <= MaxWindowPulled

WindowNext == WindowProcess \/ WindowNextCall

SpecWindow == WindowInit /\ [][WindowNext]_vars

\* The number of frames a windower holds after n inputs with a gate of G.
FilledAfter(n, G) == IF n < G THEN n ELSE G

\* C24: a windower is filling until the input that fills its buffer and
\* active from that input on: after n inputs it holds min(n, gate_frames)
\* frames, so the buffered length never exceeds gate_frames and never
\* shrinks, and GatedPowers is active (its counter has left its initial
\* value) exactly when n >= gate_frames.
C24_WindowOnlyFills ==
    /\ Len(gp.ms_state.buf) = FilledAfter(Len(gp_inputs), gate_frames(gp))
    /\ Len(gp.ms_state.buf) <= gate_frames(gp)
    /\ BufferedMovingMs_is_active(gp.ms_state) <=> Len(gp_inputs) >= gate_frames(gp)
    /\ (gp.i # USIZE_MAX) <=> Len(gp_inputs) >= gate_frames(gp)
    /\ \A k \in 1..Len(gp_outputs) : gp_outputs[k].some => k >= gate_frames(gp)
    /\ Len(gmsi.ring_buffer) = FilledAfter(Len(gm_pulled), gmsi.samples_per_gate)
    /\ Len(gmsi.ring_buffer) <= gmsi.samples_per_gate
    /\ gm_last.kind = "Some" => Len(gmsi.ring_buffer) = gmsi.samples_per_gate

\* A windower with a gate of at least two frames was filled and then given
\* two more inputs.
C24_Witness ==
    \/ /\ gate_frames(gp) >= 2
       /\ Len(gp_inputs) >= gate_frames(gp) + 2
       /\ BufferedMovingMs_is_active(gp.ms_state)
    \/ /\ Len(gm_pulled) >= gmsi.samples_per_gate + 2
       /\ Len(gmsi.ring_buffer) = gmsi.samples_per_gate
       /\ gm_last.kind = "Some"

(***************************************************************************)
(* Further properties of the Loudness aggregator, under SpecLoud.          *)
(***************************************************************************)
\* The positions of the pushed frames that are louder than the absolute
\* threshold.
LoudPushes ==
    {k \in 1..Len(ld_pushed) :
        Util_loudness(ld_pushed[k], loud.g_weights) > ABS_LOUDNESS_THRESH}

\* The relative threshold of calculate, and the positions of the retained
\* frames its relative pass averages.
RelThresh == Util_loudness(loud.abs_averager.mean, loud.g_weights) - 10000

RelKept == {k \in 1..Len(loud.abs_loud_frames) : loud.abs_loud_frames[k][1] > RelThresh}

RelAverager == rel_pass(CumulativeMean_default, loud.abs_loud_frames, RelThresh)

\* C25: the count of the absolute running mean equals the length of the
\* retained list, which equals the number of pushed frames louder than -70;
\* the relative pass averages retained frames only: as many as lie above
\* the relative threshold, never more than are retained, and their mean.
C25_CountsAgree ==
    /\ loud.abs_averager.count = Len(loud.abs_loud_frames)
    /\ Len(loud.abs_loud_frames) = Cardinality(LoudPushes)
    /\ loud.abs_loud_frames # <<>> =>
          /\ RelAverager.count = Cardinality(RelKept)
          /\ RelAverager.count <= Len(loud.abs_loud_frames)
          /\ RelKept # {} =>
                \A c \in Channels :
                    RMul(RInt(RelAverager.count), RelAverager.mean[c]) =
                        RSum([k \in 1..Len(loud.abs_loud_frames) |->
                                IF k \in RelKept THEN loud.abs_loud_frames[k][2][c]
                                ELSE RInt(0)])

\* Frames on both sides of the absolute threshold were pushed, and the
\* relative pass dropped some of the retained ones.
C25_Witness ==
    /\ ld_result.called
    /\ Cardinality(LoudPushes) >= 3
    /\ Cardinality(LoudPushes) < Len(ld_pushed)
    /\ Cardinality(RelKept) >= 1
    /\ Cardinality(RelKept) < Len(loud.abs_loud_frames)

C26_FusedAfterNone ==
    gmsi.sample_iter.ended => gm_last.kind = "None"

(***************************************************************************)
(* main.rs: CalcOptions, the calculations a run is asked for.              *)
(***************************************************************************)
CalcFlags ==
    {"momentary_mean", "momentary_max", "momentary_range",
     "shortterm_mean", "shortterm_max", "shortterm_range",
     "samplepeak", "truepeak"}

\* The match of is_noop: the first arm takes the value with every flag
\* false, the second arm all others.
CalcOptions_is_noop(self) ==
    IF \A f \in CalcFlags : self[f] = FALSE
    THEN FALSE
    ELSE TRUE

\* The layer that measures what the gating flags of the options ask for.
OptionsLayer(self) ==
    new_layer([sample_rate |-> 5,
               g_weights |-> [c \in Channels |-> RInt(1)],
               calc_momentary |->
                   self["momentary_mean"] \/ self["momentary_max"] \/ self["momentary_range"],
               calc_shortterm |->
                   self["shortterm_mean"] \/ self["shortterm_max"] \/ self["shortterm_range"],
               custom_gatings |-> {},
               layers |-> <<>>])

(***************************************************************************)
(* SpecOpts: is_noop called on any CalcOptions and on the layer built for  *)
(* it.                                                                     *)
(***************************************************************************)
notOptsVars == <<coreVars, album, build, twin, rst, peak, filt, stats>>

OptsInit ==
    /\ \E options \in [CalcFlags -> BOOLEAN] :
          opts = [options |-> options, out |-> None]
    /\ CoreIdle
    /\ album = "unused" /\ build = "unused" /\ twin = "unused" /\ rst = "unused"
    /\ peak = "unused" /\ filt = "unused" /\ stats = "unused"
    /\ LateIdleExcept("opts")

OptsIsNoop ==
    /\ ~opts.out.some
    /\ opts' = [opts EXCEPT
                   !.out = Some([options |-> CalcOptions_is_noop(opts.options),
                                 layer |-> PipelineLayer_is_noop(OptionsLayer(opts.options))])]
    /\ UNCHANGED notOptsVars
    /\ LateUnchangedExcept("opts")

OptsNext == OptsIsNoop

SpecOpts == OptsInit /\ [][OptsNext]_vars

\* C28: CalcOptions::is_noop is true exactly when every calculation flag is
\* false, and false as soon as one is set; when no peak is asked for it
\* agrees with is_noop of the layer, which is true exactly when no gating
\* is registered.
C28_IsNoopIffNoFlagSet ==
    opts.out.some =>
        /\ opts.out.val.options = (\A f \in CalcFlags : ~opts.options[f])
        /\ (~opts.options["samplepeak"] /\ ~opts.options["truepeak"]) =>
              opts.out.val.options = opts.out.val.layer

(***************************************************************************)
(* Stats::get_range.  With bins one decade wide, bin i stands 10 * i dB    *)
(* above HIST_MIN.  The gate argument is given by its factor               *)
(* 10^(0.1 * gate); lower and upper are rationals.                         *)
(***************************************************************************)
HIST_MIN == -70

\* u64::MAX, the initial prev_count: above every count of the model.
U64_MAX == 2147483647

Bin_db(i) == HIST_MIN + 10 * i

\* gate < x and x > gate, for an f64 gate and a finite x: false for NaN.
f64_lt_int(gate, x) ==
    IF gate.k = "nan" THEN FALSE
    ELSE IF gate.k = "inf" THEN gate.v[1] < 0
    ELSE RLess(gate.v, RInt(x))

\* (count as f64 * fraction) as u64: truncated, and 0 for a negative product.
count_times(count, fraction) ==
    IF fraction[1] <= 0 THEN 0
    ELSE (count * fraction[1]) \div fraction[2]

\* The second loop of get_range from bin i on; done is the break.
RECURSIVE get_range_loop(_, _, _, _, _)
get_range_loop(self, gate, counts, i, acc) ==
    IF i >= HIST_NBINS THEN acc
    ELSE LET bin == self.bins[i]
             count == IF f64_lt_int(gate, bin.x) THEN acc.count + bin.count ELSE acc.count
             min_db == IF acc.prev_count < counts.lower /\ counts.lower <= count
                       THEN Bin_db(i) ELSE acc.min_db
             hit == acc.prev_count < counts.upper /\ counts.upper <= count
             max_db == IF hit THEN Bin_db(i) ELSE acc.max_db
         IN  IF hit
             THEN [count |-> count, prev_count |-> acc.prev_count,
                   min_db |-> min_db, max_db |-> max_db]
             ELSE get_range_loop(self, gate, counts, i + 1,
                                 [count |-> count, prev_count |-> count,
                                  min_db |-> min_db, max_db |-> max_db])

\* The bins that count for a gate.
BinsAbove(self, gate) ==
    {i \in DOMAIN self.bins : self.bins[i].count > 0 /\ f64_lt_int(gate, self.bins[i].x)}

RECURSIVE SumCounts(_, _)
SumCounts(self, is) ==
    IF is = {} THEN 0
    ELSE LET i == CHOOSE j \in is : TRUE
         IN  self.bins[i].count + SumCounts(self, is \ {i})

\* get_range: the range with the two dB values it was taken from.
Stats_get_range(self, gate_factor, lower_arg, upper_arg) ==
    LET gate == f64_scale(gate_factor, self.wmsq)
        lo == IF RLess(upper_arg, lower_arg) THEN upper_arg ELSE lower_arg
        up == IF RLess(upper_arg, lower_arg) THEN lower_arg ELSE upper_arg
        lower == IF RLess(lo, RInt(0)) THEN RInt(0) ELSE lo
        upper == IF RLess(RInt(1), up) THEN RInt(1) ELSE up
        count == SumCounts(self, BinsAbove(self, gate))
    IN  IF count > 0
        THEN LET r == get_range_loop(self, gate,
                                     [lower |-> count_times(count, lower),
                                      upper |-> count_times(count, upper)],
                                     0,
                                     [count |-> 0, prev_count |-> U64_MAX,
                                      min_db |-> 0, max_db |-> 0])
             IN  [range |-> r.max_db - r.min_db, min_db |-> r.min_db, max_db |-> r.max_db,
                  above |-> count]
        ELSE [range |-> 0, min_db |-> 0, max_db |-> 0, above |-> 0]

(***************************************************************************)
(* SpecRange: get_range called on a Stats that starts empty or holding     *)
(* powers with their finite mean, and that add_sqs may have grown.         *)
(***************************************************************************)
RangeSeeds == {<<>>, <<20, 20>>, <<5, 20, 20, 300>>}

RangeGateFactors == {Rat(1, 100), Rat(1, 10)}

RangeFractions == {Rat(0 - 1, 2), RInt(0), Rat(1, 10), Rat(1, 2), Rat(95, 100), RInt(1), Rat(3, 2)}

notRangeVars == <<coreVars, album, build, twin, rst, peak, filt, stats>>

RangeInit ==
    /\ \E powers \in RangeSeeds :
          rng = [s |-> Stats_holding(powers), out |-> None, calls |-> 0]
    /\ CoreIdle
    /\ album = "unused" /\ build = "unused" /\ twin = "unused" /\ rst = "unused"
    /\ peak = "unused" /\ filt = "unused" /\ stats = "unused"
    /\ LateIdleExcept("rng")

RangeAddSqs(wmsq) ==
    /\ rng.calls < MaxRangeCalls
    /\ rng' = [s |-> Stats_add_sqs(rng.s, wmsq), out |-> None, calls |-> rng.calls + 1]
    /\ UNCHANGED notRangeVars
    /\ LateUnchangedExcept("rng")

RangeGetRange(gate_factor, lower, upper) ==
    /\ rng.calls < MaxRangeCalls
    /\ rng' = [rng EXCEPT
                  !.out = Some([gate_factor |-> gate_factor, lower |-> lower, upper |-> upper,
                                got |-> Stats_get_range(rng.s, gate_factor, lower, upper)]),
                  !.calls = @ + 1]
    /\ UNCHANGED notRangeVars
    /\ LateUnchangedExcept("rng")

RangeNext ==
    \/ \E wmsq \in StatsPowers : RangeAddSqs(wmsq)
    \/ \E gate_factor \in RangeGateFactors, lower \in RangeFractions,
          upper \in RangeFractions : RangeGetRange(gate_factor, lower, upper)

SpecRange == RangeInit /\ [][RangeNext]_vars

RebuildCustomArgs == {<<400, 200>>, <<400, 400>>, <<600, 200>>, <<600, 400>>}

notRebuildVars == <<coreVars, album, build, twin, rst, peak, filt, stats>>

RebuildInit ==
    /\ \E sample_rate \in PipeSampleRates, g_weights \in PipeWeights :
          rebuild = [builder |-> PipelineBuilder_new(sample_rate, g_weights),
                     configured |-> PipelineBuilder_new(sample_rate, g_weights),
                     built |-> <<>>]
    /\ CoreIdle
    /\ album = "unused" /\ build = "unused" /\ twin = "unused" /\ rst = "unused"
    /\ peak = "unused" /\ filt = "unused" /\ stats = "unused"
    /\ LateIdleExcept("rebuild")

\* A configuring call, made before the first build.
RebuildConfigure(builder) ==
    /\ rebuild.built = <<>>
    /\ builder # rebuild.builder
    /\ rebuild' = [rebuild EXCEPT !.builder = builder, !.configured = builder]
    /\ UNCHANGED notRebuildVars
    /\ LateUnchangedExcept("rebuild")

RebuildMomentary == RebuildConfigure(PipelineBuilder_momentary(rebuild.builder))

RebuildShortterm == RebuildConfigure(PipelineBuilder_shortterm(rebuild.builder))

RebuildCustom ==
    \E args \in RebuildCustomArgs :
        RebuildConfigure(PipelineBuilder_custom(rebuild.builder, args[1], args[2]))

RebuildBuild ==
    /\ Len(rebuild.built) < MaxBuilds
    /\ ~PipelineBuilder_build_panics(rebuild.builder)
    /\ rebuild' = [rebuild EXCEPT
                      !.builder = PipelineBuilder_build(rebuild.builder).self,
                      !.built = Append(@, PipelineBuilder_build(rebuild.builder).pipeline)]
    /\ UNCHANGED notRebuildVars
    /\ LateUnchangedExcept("rebuild")

RebuildNext ==
    \/ RebuildMomentary
    \/ RebuildShortterm
    \/ RebuildCustom
    \/ RebuildBuild

SpecRebuild == RebuildInit /\ [][RebuildNext]_vars

\* C30: build leaves the builder's configuration as it was, and every
\* pipeline built from one builder measures the same gatings: momentary,
\* short-term and each custom gating registered before the first build.
C30_BuildKeepsConfiguration ==
    /\ rebuild.builder = rebuild.configured
    /\ \A k \in 1..Len(rebuild.built) :
          Registered(rebuild.built[k]) = RegisteredIn(rebuild.configured)

====
